---- MODULE Spec2Model ----
(***************************************************************************)
(* Uptime monitor: the check cycle (workers/monitoring/checker.js), the    *)
(* notification pass (workers/monitoring/notifications.js), the daily      *)
(* statistics (workers/monitoring/statistics.js) and the cron handler      *)
(* (workers/index.js), over the tables of the D1 datastore and the KV      *)
(* namespace.  Time is counted in seconds; a timestamp is the number of    *)
(* seconds since the start of day 0.                                       *)
(***************************************************************************)
EXTENDS Integers, Sequences, FiniteSets, TLC

VARIABLES
  now,         \* the wall clock, in seconds
  ticks,       \* how often the clock was advanced between calls
  monitors,    \* table monitors: id -> row
  contacts,    \* table alert_contacts: id -> row
  mac,         \* table monitor_alert_contacts: set of rows
  checks,      \* table monitor_checks: sequence of rows, id = position
  incidents,   \* table incidents: sequence of rows, id = position
  stats,       \* table uptime_stats: set of rows, unique on (monitor_id, date)
  kv,          \* KV namespace, the "notification:" keys: set of [key, value]
  alert_logs,  \* table alert_logs: sequence of rows
  call,        \* what the last entry-point call did and returned
  cycles       \* the check cycles in flight: request -> monitor, probe result, position

vars == <<now, ticks, monitors, contacts, mac, checks, incidents, stats, kv, alert_logs, call,
          cycles>>

-----------------------------------------------------------------------------
(* Bounds of the model *)

MaxChecks == 4        \* check cycles through the test route
MaxBatchChecks == 6   \* rows recorded by the cron handler
MaxTicks == 2         \* advances of the clock
MaxLogs == 6          \* rows of alert_logs before the last cron run
MaxFaultCalls == 2    \* cycles over a failing store

(* Program constants *)

SecondsPerDay == 86400
NotifyWindowSeconds == 600
LogRetentionDays == 30
StatsRetentionDays == 365
KvTtlSeconds == 86400

NULL == -1
NullReal == <<0, 0>>

Monitors == {1, 2}
Requests == {1, 2}
Contacts == {1, 2, 3, 4}
Statuses == {"up", "down", "timeout", "error"}
DownStatuses == {"down", "error", "timeout"}

-----------------------------------------------------------------------------
(* Arithmetic helpers *)

Max(a, b) == IF a >= b THEN a ELSE b
Min(a, b) == IF a <= b THEN a ELSE b

\* Math.round(n / d) for n >= 0, d > 0
Round(n, d) == (2 * n + d) \div (2 * d)

\* a REAL value is a pair <<numerator, denominator>>; NullReal is SQL NULL
IsNull(r) == r[2] = 0
RealEq(a, b) == IF IsNull(a) \/ IsNull(b) THEN IsNull(a) /\ IsNull(b)
                ELSE a[1] * b[2] = b[1] * a[2]

\* a REAL value in lowest terms, so that sums of many values stay small
RECURSIVE Gcd(_, _)
Gcd(a, b) == IF b = 0 THEN a ELSE Gcd(b, a % b)
Reduce(r) == IF r[1] = 0 THEN <<0, 1>> ELSE <<r[1] \div Gcd(r[1], r[2]), r[2] \div Gcd(r[1], r[2])>>

\* `const v = await f(); ... v ...`: the value is computed once, then used
With(v, Body(_)) == CHOOSE x \in {Body(r) : r \in {v}} : TRUE

\* date(ts): the calendar day of a timestamp
DateOf(t) == t \div SecondsPerDay

\* checked_at is stored as ISO text "YYYY-MM-DDTHH:MM:SS.sssZ"; SQLite's
\* datetime('now', ...) yields "YYYY-MM-DD HH:MM:SS".  The two are compared as
\* text: equal dates are decided by 'T' > ' ', so the ISO text is the greater
\* whenever its date is not earlier.
IsoAfterSql(iso, sql) == DateOf(iso) >= DateOf(sql)

-----------------------------------------------------------------------------
(* The tables as one value, so that the handlers compose *)

DB == [checks |-> checks, incidents |-> incidents, stats |-> stats,
       kv |-> kv, alert_logs |-> alert_logs, monitors |-> monitors]

ChecksOf(db, m) == {i \in DOMAIN db.checks : db.checks[i].monitor_id = m}

OpenIncidents(db, m) ==
  {i \in DOMAIN db.incidents :
     db.incidents[i].monitor_id = m /\ db.incidents[i].resolved_at = NULL}

StatRows(db, m, d) == {r \in db.stats : r.monitor_id = m /\ r.date = d}

-----------------------------------------------------------------------------
(* Text: a string is a sequence of characters, so that split, trim and parseInt
   can be computed as the code computes them *)

DigitChars == <<"0", "1", "2", "3", "4", "5", "6", "7", "8", "9">>
IsDigit(c) == \E d \in 1..10 : DigitChars[d] = c
DigitValue(c) == (CHOOSE d \in 1..10 : DigitChars[d] = c) - 1

\* the decimal text of a natural number
RECURSIVE DigitsOf(_)
DigitsOf(n) ==
  IF n < 10 THEN <<DigitChars[n + 1]>>
  ELSE DigitsOf(n \div 10) \o <<DigitChars[(n % 10) + 1]>>

\* SQL NULL in a TEXT column
NullText == <<"NULL">>

\* parseInt's result for text without a leading number
NaN == -1

\* String.prototype.split(sep), sep a single character
RECURSIVE Split(_, _)
Split(q, sep) ==
  LET at == {i \in 1..Len(q) : q[i] = sep} IN
  IF at = {} THEN <<q>>
  ELSE LET i == CHOOSE x \in at : \A y \in at : x <= y
       IN <<SubSeq(q, 1, i - 1)>> \o Split(SubSeq(q, i + 1, Len(q)), sep)

\* String.prototype.trim()
Trim(q) ==
  LET ink == {i \in 1..Len(q) : q[i] # " "} IN
  IF ink = {} THEN <<>>
  ELSE SubSeq(q, CHOOSE x \in ink : \A y \in ink : x <= y,
                 CHOOSE x \in ink : \A y \in ink : x >= y)

RECURSIVE DecimalValue(_)
DecimalValue(q) ==
  IF q = <<>> THEN 0
  ELSE DecimalValue(SubSeq(q, 1, Len(q) - 1)) * 10 + DigitValue(q[Len(q)])

\* parseInt(text) for unsigned text: the leading digits, or NaN when there are none
parseInt(q) ==
  LET t == Trim(q)
      stop == {i \in 1..Len(t) : ~IsDigit(t[i])}
      n == IF stop = {} THEN Len(t) ELSE (CHOOSE x \in stop : \A y \in stop : x <= y) - 1
  IN IF n = 0 THEN NaN ELSE DecimalValue(SubSeq(t, 1, n))

\* for (let i = start; i <= end; i++) result.push(i); a comparison with NaN is false
RangeCodes(start, end) ==
  IF start = NaN \/ end = NaN \/ start > end THEN <<>>
  ELSE [k \in 1..(end - start + 1) |-> start + k - 1]

\* mutant: the end of a range is left out
PartCodesExclusive(part) ==
  IF \E i \in 1..Len(part) : part[i] = "-"
  THEN RangeCodes(parseInt(Trim(Split(part, "-")[1])),
                  parseInt(Trim(Split(part, "-")[2])) - 1)
  ELSE <<parseInt(Trim(part))>>

\* one pass of the loop over the parts
PartCodes(part) ==
  IF \E i \in 1..Len(part) : part[i] = "-"
  THEN RangeCodes(parseInt(Trim(Split(part, "-")[1])), parseInt(Trim(Split(part, "-")[2])))
  ELSE <<parseInt(Trim(part))>>

RECURSIVE PartsCodes(_)
PartsCodes(parts) ==
  IF parts = <<>> THEN <<>> ELSE PartCodes(Head(parts)) \o PartsCodes(Tail(parts))

\* parseStatusCodes(codes): [200] for null and for the empty string
parseStatusCodes(codes) ==
  IF codes = NullText \/ codes = <<>> THEN <<200>>
  ELSE PartsCodes(Split(codes, ","))

\* String.prototype.includes(keyword)
Includes(content, keyword) ==
  \E i \in 0..(Len(content) - Len(keyword)) :
    SubSeq(content, i + 1, i + Len(keyword)) = keyword

\* the characters of a text as one string, for a template literal
RECURSIVE Join(_)
Join(q) == IF q = <<>> THEN "" ELSE Head(q) \o Join(Tail(q))

-----------------------------------------------------------------------------
(* Probes: what one probe of a monitor can produce *)

SupportedTypes == {"http", "https", "ping", "port", "keyword", "ssl", "heartbeat"}

Result(st, rt, msg) ==
  [threw |-> FALSE, status |-> st, response_time_ms |-> rt, error_message |-> msg]

Thrown(msg) ==
  [threw |-> TRUE, status |-> "error", response_time_ms |-> NULL, error_message |-> msg]

\* what fetch(url, options) settles with: a response with its status code, or a
\* rejection with the error's name, its message, and whether the message
\* includes 'timeout'
Response(code) ==
  [kind |-> "response", status |-> code, name |-> "none", message |-> "none",
   says_timeout |-> FALSE]
Failure(name, message, saysTimeout) ==
  [kind |-> "error", status |-> 0, name |-> name, message |-> message,
   says_timeout |-> saysTimeout]

TimedOut == Failure("TimeoutError", "The operation was aborted due to timeout", TRUE)
Aborted == Failure("AbortError", "The operation was aborted", FALSE)
Refused == Failure("TypeError", "Connection refused", FALSE)
DnsFailed == Failure("TypeError", "DNS lookup failed", FALSE)

\* mutant: only the first expected code is compared
checkHTTPResultFirstCode(mon, fetched, rt) ==
  IF mon.headers = "malformed" THEN Thrown("Unexpected token")
  ELSE IF fetched.kind = "response"
  THEN With(parseStatusCodes(mon.expected_status_codes),
            LAMBDA expectedCodes :
              IF expectedCodes # <<>> /\ expectedCodes[1] = fetched.status
              THEN Result("up", rt, "null")
              ELSE Result("down", rt,
                          "Unexpected status code: " \o ToString(fetched.status)))
  ELSE Result("timeout", rt,
              IF fetched.name = "AbortError" \/ fetched.says_timeout
              THEN "Request timeout after " \o ToString(mon.timeout_seconds) \o "s"
              ELSE fetched.message)

\* checkHTTP(monitor) when its fetch settles with `fetched` after rt milliseconds
checkHTTPResult(mon, fetched, rt) ==
  IF mon.headers = "malformed" THEN Thrown("Unexpected token")
  ELSE IF fetched.kind = "response"
  THEN With(parseStatusCodes(mon.expected_status_codes),
            LAMBDA expectedCodes :
              IF \E i \in DOMAIN expectedCodes : expectedCodes[i] = fetched.status
              THEN Result("up", rt, "null")
              ELSE Result("down", rt,
                          "Unexpected status code: " \o ToString(fetched.status)))
  ELSE Result("timeout", rt,
              IF fetched.name = "AbortError" \/ fetched.says_timeout
              THEN "Request timeout after " \o ToString(mon.timeout_seconds) \o "s"
              ELSE fetched.message)

\* a response with its body text
Page(code, body) == Response(code) @@ [body |-> body]

\* the object checkKeyword returns after its own fetch: the http result with the
\* status, keyword_found and the message replaced
KeywordVerdict(httpResult, keyword, keywordType, keywordFound) ==
  LET isOk == IF keywordType = "exists" THEN keywordFound ELSE ~keywordFound IN
  [httpResult EXCEPT
     !.status = IF isOk THEN "up" ELSE "down",
     !.error_message =
        IF isOk THEN "null"
        ELSE "Keyword \"" \o Join(keyword) \o "\" "
             \o (IF keywordType = "exists" THEN "not found" ELSE "found")]
  @@ [keyword_found |-> keywordFound]

\* checkKeyword(monitor) when the fetch of checkHTTP settles with `fetched` and its
\* own fetch of the body settles with `second`
checkKeywordResult(mon, fetched, rt, second) ==
  With(checkHTTPResult(mon, fetched, rt),
       LAMBDA httpResult :
         IF httpResult.threw \/ httpResult.status # "up" THEN httpResult
         ELSE IF second.kind # "response"
         THEN [httpResult EXCEPT !.status = "error",
                 !.error_message = "Keyword check failed: " \o second.message]
         ELSE KeywordVerdict(httpResult, mon.keyword,
                             IF mon.keyword_type = "null" THEN "exists"
                             ELSE mon.keyword_type,
                             Includes(second.body, mon.keyword)))

\* checkHTTP(monitor) over whatever its fetch settles with: a response with an
\* expected code, a response with another code, or a rejection
checkHTTP(mon, RT) ==
  IF mon.headers = "malformed" THEN {Thrown("Unexpected token")}
  ELSE {Result("up", rt, "null") : rt \in RT}
       \cup {Result("down", rt, "message") : rt \in RT}
       \cup {Result("timeout", rt, "message") : rt \in RT}

checkKeyword(mon, RT) ==
  LET http == checkHTTP(mon, RT) IN
  {h \in http : h.threw \/ h.status # "up"}
  \cup {h \in http : ~h.threw /\ h.status = "up"}
  \cup {Result("down", h.response_time_ms, "message") :
          h \in {x \in http : ~x.threw /\ x.status = "up"}}
  \cup {Result("error", h.response_time_ms, "message") :
          h \in {x \in http : ~x.threw /\ x.status = "up"}}

checkPing(mon, RT) ==
  {Result("up", rt, "null") : rt \in RT} \cup {Result("down", rt, "message") : rt \in RT}

checkPort(mon, RT) ==
  {Result("up", rt, "null") : rt \in RT}
  \cup {Result("down", rt, "message") : rt \in RT}

checkSSL(mon, RT) ==
  {Result("up", 0, "null"), Result("down", 0, "message")}

\* what KV.get('heartbeat:<id>') returns: nothing, or a timestamp in milliseconds
NoHeartbeat == [stored |-> FALSE, at |-> 0]
Stored(ms) == [stored |-> TRUE, at |-> ms]

\* mutant: a heartbeat exactly 2 x interval_seconds old is overdue
checkHeartbeatResultStrict(mon, lastHeartbeat, nowMs) ==
  IF ~lastHeartbeat.stored THEN Result("down", 0, "No heartbeat received")
  ELSE LET timeDiff == nowMs - lastHeartbeat.at
           maxInterval == mon.interval_seconds * 2 * 1000
       IN Result(IF timeDiff < maxInterval THEN "up" ELSE "down",
                 timeDiff,
                 IF timeDiff >= maxInterval
                 THEN "Heartbeat overdue by "
                      \o ToString(Round(timeDiff - maxInterval, 1000)) \o "s"
                 ELSE "null")

\* checkHeartbeat(monitor, env) at nowMs milliseconds, given what the KV holds;
\* timeDiff and maxInterval are kept in milliseconds
checkHeartbeatResult(mon, lastHeartbeat, nowMs) ==
  IF ~lastHeartbeat.stored THEN Result("down", 0, "No heartbeat received")
  ELSE LET timeDiff == nowMs - lastHeartbeat.at
           maxInterval == mon.interval_seconds * 2 * 1000
       IN Result(IF timeDiff <= maxInterval THEN "up" ELSE "down",
                 timeDiff,
                 IF timeDiff > maxInterval
                 THEN "Heartbeat overdue by "
                      \o ToString(Round(timeDiff - maxInterval, 1000)) \o "s"
                 ELSE "null")

checkHeartbeat(mon, RT, F) ==
  IF "kv_get" \in F THEN {Thrown("KV get failed")}
  ELSE {Result("down", 0, "No heartbeat received")}
       \cup {Result("up", rt, "null") : rt \in RT}
       \cup {Result("down", rt, "message") : rt \in RT}

\* the switch of runMonitoringCheck
ProbeOutcomes(mon, RT, F) ==
  CASE mon.type \in {"http", "https"} -> checkHTTP(mon, RT)
    [] mon.type = "ping" -> checkPing(mon, RT)
    [] mon.type = "port" -> checkPort(mon, RT)
    [] mon.type = "keyword" -> checkKeyword(mon, RT)
    [] mon.type = "ssl" -> checkSSL(mon, RT)
    [] mon.type = "heartbeat" -> checkHeartbeat(mon, RT, F)
    [] OTHER -> {Thrown("Unsupported monitor type")}

-----------------------------------------------------------------------------
(* checker.js: recording a result *)

NewStatRow(m, d) ==
  [monitor_id |-> m, date |-> d, total_checks |-> 0, successful_checks |-> 0,
   uptime_percentage |-> <<100, 1>>, avg_response_time_ms |-> NullReal,
   min_response_time_ms |-> NULL, max_response_time_ms |-> NULL,
   up_checks |-> NULL, down_checks |-> NULL, avg_response_time |-> NULL,
   min_response_time |-> NULL, max_response_time |-> NULL,
   downtime_duration |-> NULL, downtime_incidents |-> NULL]

\* INSERT ... ON CONFLICT(monitor_id, date) DO UPDATE SET ...: every right-hand
\* side reads the row as it was before the update
UpsertDailyStat(db, m, d, result) ==
  LET up == IF result.status = "up" THEN 1 ELSE 0
      rt == IF result.response_time_ms = NULL THEN 0 ELSE result.response_time_ms
      old == StatRows(db, m, d)
  IN IF old = {}
     THEN db.stats \cup
          {[NewStatRow(m, d) EXCEPT !.total_checks = 1, !.successful_checks = up,
              !.avg_response_time_ms = <<rt, 1>>,
              !.min_response_time_ms = rt, !.max_response_time_ms = rt]}
     ELSE LET r == CHOOSE x \in old : TRUE
              avg == r.avg_response_time_ms
          IN (db.stats \ {r}) \cup
             {[r EXCEPT !.total_checks = r.total_checks + 1,
                 !.successful_checks = r.successful_checks + up,
                 !.avg_response_time_ms =
                    IF IsNull(avg) \/ r.total_checks = 0 THEN NullReal
                    ELSE <<avg[1] * (r.total_checks - 1) + rt * avg[2],
                           avg[2] * r.total_checks>>,
                 !.min_response_time_ms =
                    IF r.min_response_time_ms = NULL THEN NULL
                    ELSE Min(r.min_response_time_ms, rt),
                 !.max_response_time_ms =
                    IF r.max_response_time_ms = NULL THEN NULL
                    ELSE Max(r.max_response_time_ms, rt)]}

\* the SELECT and the UPDATE of uptime_percentage
RecalcUptime(st, m, d) ==
  {IF r.monitor_id = m /\ r.date = d
   THEN [r EXCEPT !.uptime_percentage = <<r.successful_checks * 100, r.total_checks>>]
   ELSE r : r \in st}

MaybeRecalc(st, m, d, F) == IF "update_pct" \in F THEN st ELSE RecalcUptime(st, m, d)

\* mutant: only the checks that found the monitor up are counted
updateDailyStatsUpOnly(db, m, result, t, F) ==
  IF "upsert_stats" \in F \/ result.status # "up" THEN [db |-> db, threw |-> FALSE]
  ELSE [db |-> [db EXCEPT !.stats =
                  MaybeRecalc(UpsertDailyStat(db, m, DateOf(t), result), m, DateOf(t), F)],
        threw |-> FALSE]

\* updateDailyStats: its own try/catch swallows every failure
updateDailyStats(db, m, result, t, F) ==
  IF "upsert_stats" \in F THEN [db |-> db, threw |-> FALSE]
  ELSE [db |-> [db EXCEPT !.stats =
                  MaybeRecalc(UpsertDailyStat(db, m, DateOf(t), result), m, DateOf(t), F)],
        threw |-> FALSE]

CheckRow(db, m, result, t) ==
  [id |-> Len(db.checks) + 1, monitor_id |-> m, status |-> result.status,
   response_time_ms |-> result.response_time_ms,
   error_message |-> result.error_message, checked_at |-> t]

\* mutant: no try/catch around the insert
saveCheckResultNoCatch(db, m, result, t, F) ==
  IF "insert_check" \in F THEN [db |-> db, threw |-> TRUE]
  ELSE With([db EXCEPT !.checks = Append(db.checks, CheckRow(db, m, result, t))],
            LAMBDA d : updateDailyStats(d, m, result, t, F))

\* saveCheckResult: a failed insert skips updateDailyStats and is swallowed
saveCheckResult(db, m, result, t, F) ==
  IF "insert_check" \in F THEN [db |-> db, threw |-> FALSE]
  ELSE With([db EXCEPT !.checks = Append(db.checks, CheckRow(db, m, result, t))],
            LAMBDA d : updateDailyStats(d, m, result, t, F))

-----------------------------------------------------------------------------
(* checker.js: transitions, incidents, queued notifications *)

createIncident(db, m, result, t, F) ==
  IF "insert_incident" \in F THEN [db |-> db, threw |-> FALSE]
  ELSE [db |-> [db EXCEPT !.incidents = Append(db.incidents,
                  [monitor_id |-> m, status |-> "investigating", started_at |-> t,
                   resolved_at |-> NULL, duration_seconds |-> NULL,
                   cause |-> IF result.error_message = "null"
                             THEN "Monitor status" ELSE result.error_message])],
        threw |-> FALSE]

\* mutant: the UPDATE has no monitor_id in its WHERE clause
resolveIncidentAnyMonitor(db, m, t, F) ==
  IF "resolve_incident" \in F THEN [db |-> db, threw |-> FALSE]
  ELSE [db |-> [db EXCEPT !.incidents =
                  [i \in DOMAIN db.incidents |->
                     IF db.incidents[i].resolved_at = NULL
                     THEN [db.incidents[i] EXCEPT !.status = "resolved", !.resolved_at = t,
                             !.duration_seconds = t - db.incidents[i].started_at]
                     ELSE db.incidents[i]]],
        threw |-> FALSE]

\* mutant: the incident is closed without its duration
resolveIncidentNoDuration(db, m, t, F) ==
  IF "resolve_incident" \in F THEN [db |-> db, threw |-> FALSE]
  ELSE [db |-> [db EXCEPT !.incidents =
                  [i \in DOMAIN db.incidents |->
                     IF db.incidents[i].monitor_id = m /\ db.incidents[i].resolved_at = NULL
                     THEN [db.incidents[i] EXCEPT !.status = "resolved", !.resolved_at = t]
                     ELSE db.incidents[i]]],
        threw |-> FALSE]

\* mutant: only the oldest open incident of the monitor is closed
resolveIncidentOldestOnly(db, m, t, F) ==
  IF "resolve_incident" \in F THEN [db |-> db, threw |-> FALSE]
  ELSE [db |-> [db EXCEPT !.incidents =
                  [i \in DOMAIN db.incidents |->
                     IF /\ i \in OpenIncidents(db, m)
                        /\ \A j \in OpenIncidents(db, m) : i <= j
                     THEN [db.incidents[i] EXCEPT !.status = "resolved", !.resolved_at = t,
                             !.duration_seconds = t - db.incidents[i].started_at]
                     ELSE db.incidents[i]]],
        threw |-> FALSE]

resolveIncident(db, m, t, F) ==
  IF "resolve_incident" \in F THEN [db |-> db, threw |-> FALSE]
  ELSE [db |-> [db EXCEPT !.incidents =
                  [i \in DOMAIN db.incidents |->
                     IF db.incidents[i].monitor_id = m /\ db.incidents[i].resolved_at = NULL
                     THEN [db.incidents[i] EXCEPT !.status = "resolved", !.resolved_at = t,
                             !.duration_seconds = t - db.incidents[i].started_at]
                     ELSE db.incidents[i]]],
        threw |-> FALSE]

\* the rows of the join alert_contacts x monitor_alert_contacts for a monitor
QueueContacts(m) ==
  {r \in mac : r.monitor_id = m /\ contacts[r.alert_contact_id].is_active}

\* mutant: the two flags are taken for each other
shouldNotifySwapped(contact, currentStatus, lastStatus) ==
  IF currentStatus # "up" /\ contact.notify_on_up THEN TRUE
  ELSE IF currentStatus = "up" /\ lastStatus # "up" /\ contact.notify_on_down THEN TRUE
  ELSE FALSE

shouldNotify(contact, currentStatus, lastStatus) ==
  IF currentStatus # "up" /\ contact.notify_on_down THEN TRUE
  ELSE IF currentStatus = "up" /\ lastStatus # "up" /\ contact.notify_on_up THEN TRUE
  ELSE FALSE

QueueEntry(m, c, currentStatus, lastStatus, t) ==
  [key |-> <<t, m, c>>,
   value |-> [monitorId |-> m, contactId |-> c, status |-> currentStatus,
              previousStatus |-> lastStatus, timestamp |-> t],
   expires |-> t + KvTtlSeconds]

queueNotifications(db, m, currentStatus, lastStatus, t, F) ==
  IF "select_contacts" \in F \/ "kv_put" \in F THEN [db |-> db, threw |-> FALSE]
  ELSE LET new == {QueueEntry(m, r.alert_contact_id, currentStatus, lastStatus, t) :
                     r \in {x \in QueueContacts(m) :
                              shouldNotify(x, currentStatus, lastStatus)}}
       IN [db |-> [db EXCEPT !.kv = {x \in db.kv : \A e \in new : x.key # e.key} \cup new],
           threw |-> FALSE]

\* SELECT status FROM monitor_checks WHERE monitor_id = ? AND id != (SELECT MAX(id) ...)
\* ORDER BY checked_at DESC LIMIT 1; 'unknown' when there is no such row
LastStatus(db, m) ==
  LET mine == ChecksOf(db, m)
      rest == {i \in mine : \E j \in mine : j > i}
  IN IF rest = {} THEN "unknown"
     ELSE LET i == CHOOSE x \in rest :
                     \A y \in rest :
                        \/ db.checks[y].checked_at < db.checks[x].checked_at
                        \/ (db.checks[y].checked_at = db.checks[x].checked_at /\ y <= x)
          IN db.checks[i].status

\* the body of `if (lastStatus !== currentStatus)`
OnStatusChange(db, m, result, lastStatus, t, F) ==
  With(IF result.status \in {"down", "error", "timeout"}
       THEN createIncident(db, m, result, t, F).db
       ELSE IF result.status = "up" /\ lastStatus \in {"down", "error", "timeout"}
       THEN resolveIncident(db, m, t, F).db
       ELSE db,
       LAMBDA d : queueNotifications(d, m, result.status, lastStatus, t, F))

\* mutant: the test `lastStatus !== currentStatus` is dropped
CompareStatusAlways(db, m, result, lastStatus, t, F) ==
  OnStatusChange(db, m, result, lastStatus, t, F)

\* mutant: a check that is not up is handled as a change whatever preceded it
CompareStatusNonUp(db, m, result, lastStatus, t, F) ==
  IF lastStatus # result.status \/ result.status # "up"
  THEN OnStatusChange(db, m, result, lastStatus, t, F)
  ELSE [db |-> db, threw |-> FALSE]

CompareStatus(db, m, result, lastStatus, t, F) ==
  IF lastStatus # result.status THEN OnStatusChange(db, m, result, lastStatus, t, F)
  ELSE [db |-> db, threw |-> FALSE]

handleStatusChange(db, m, result, t, F) ==
  IF "select_last" \in F THEN [db |-> db, threw |-> FALSE]
  ELSE With(LastStatus(db, m), LAMBDA lastStatus : CompareStatus(db, m, result, lastStatus, t, F))

Resolved(result) == [kind |-> "resolved", status |-> result.status]
Rejected == [kind |-> "rejected", status |-> "none"]

\* the catch block of runMonitoringCheck: the error result is saved and returned
\* mutant: the catch block saves the error result and rethrows
CatchReturnRethrows(s, errorResult) == [db |-> s.db, ret |-> Rejected]

CatchReturn(s, errorResult) ==
  IF s.threw THEN [db |-> s.db, ret |-> Rejected]
  ELSE [db |-> s.db, ret |-> Resolved(errorResult)]

\* mutant: the catch block returns the error result without saving it
CatchBlockNoSave(db, m, msg, t, F) == [db |-> db, ret |-> Resolved(Thrown(msg))]

CatchBlock(db, m, msg, t, F) ==
  With(saveCheckResult(db, m, Thrown(msg), t, F), LAMBDA s : CatchReturn(s, Thrown(msg)))

\* the try block after handleStatusChange
AfterStatusChange(h, m, out, t, F) ==
  IF h.threw THEN CatchBlock(h.db, m, "exception", t, F)
  ELSE [db |-> h.db, ret |-> Resolved(out)]

\* mutant: a result that was not persisted ends the cycle
AfterSaveUnsavedReturns(s, m, out, t, F) ==
  IF s.threw THEN CatchBlock(s.db, m, "exception", t, F)
  ELSE IF "insert_check" \in F THEN [db |-> s.db, ret |-> Resolved(out)]
  ELSE With(handleStatusChange(s.db, m, out, t, F),
            LAMBDA h : AfterStatusChange(h, m, out, t, F))

\* the try block after saveCheckResult
AfterSave(s, m, out, t, F) ==
  IF s.threw THEN CatchBlock(s.db, m, "exception", t, F)
  ELSE With(handleStatusChange(s.db, m, out, t, F),
            LAMBDA h : AfterStatusChange(h, m, out, t, F))

\* runMonitoringCheck(monitor, env) with the probe's outcome `out` at time t
runMonitoringCheck(db, m, out, t, F) ==
  IF out.threw THEN CatchBlock(db, m, out.error_message, t, F)
  ELSE With(saveCheckResult(db, m, out, t, F), LAMBDA s : AfterSave(s, m, out, t, F))

-----------------------------------------------------------------------------
(* notifications.js: the notification pass of the cron handler *)

\* the row of the latest check of a monitor (MAX(checked_at)), 0 when none
LatestCheck(db, m) ==
  LET mine == ChecksOf(db, m) IN
  IF mine = {} THEN 0
  ELSE CHOOSE i \in mine :
         \A j \in mine :
            \/ db.checks[j].checked_at < db.checks[i].checked_at
            \/ (db.checks[j].checked_at = db.checks[i].checked_at /\ j <= i)

\* the LEFT JOIN prev_mc: the latest check strictly before the given one, 0 when none
PrevCheck(db, m, i) ==
  LET before == {j \in ChecksOf(db, m) : db.checks[j].checked_at < db.checks[i].checked_at} IN
  IF before = {} THEN 0
  ELSE CHOOSE j \in before :
         \A k \in before :
            \/ db.checks[k].checked_at < db.checks[j].checked_at
            \/ (db.checks[k].checked_at = db.checks[j].checked_at /\ k <= j)

\* mutant: the query does not compare the latest check with the one before it
NeedsNotificationAnyStatus(db, m, t) ==
  LET i == LatestCheck(db, m) IN
  /\ i # 0
  /\ IsoAfterSql(db.checks[i].checked_at, t - NotifyWindowSeconds)
  /\ db.monitors[m].alert_contacts # {}

\* the WHERE clause of processNotifications' query
NeedsNotification(db, m, t) ==
  LET i == LatestCheck(db, m) IN
  /\ i # 0
  /\ IsoAfterSql(db.checks[i].checked_at, t - NotifyWindowSeconds)
  /\ LET p == PrevCheck(db, m, i) IN
     \/ p = 0
     \/ (db.checks[i].status = "down" /\ db.checks[p].status = "up")
     \/ (db.checks[i].status = "up" /\ db.checks[p].status = "down")
  /\ db.monitors[m].alert_contacts # {}

\* sendNotification: "true", "false" or "throw", given what the network does
sendNotification(contact, net) ==
  IF contact.settings = "malformed" THEN "throw"
  ELSE CASE contact.type = "email" -> "true"
         [] contact.type \in {"webhook", "discord", "slack", "telegram"} ->
              IF net = "ok" THEN "true" ELSE "false"
         [] OTHER -> "false"

LogRow(m, c, type, status, message, t) ==
  [alert_contact_id |-> c, monitor_id |-> m, type |-> type, status |-> status,
   message |-> message, created_at |-> t]

\* mutant: the catch block does not log the failure
NotifyContactSilentCatch(logs, m, c, type, net, t) ==
  LET r == sendNotification(contacts[c], net) IN
  IF r = "throw" THEN logs
  ELSE IF r = "true" THEN Append(logs, LogRow(m, c, type, "sent", "title", t))
  ELSE Append(logs, LogRow(m, c, type, "failed", "Failed to send notification", t))

\* one pass of the loop over contacts: the try and the catch around one send
NotifyContact(logs, m, c, type, net, t) ==
  LET r == sendNotification(contacts[c], net) IN
  IF r = "throw" THEN Append(logs, LogRow(m, c, type, "failed", "exception message", t))
  ELSE IF r = "true" THEN Append(logs, LogRow(m, c, type, "sent", "title", t))
  ELSE Append(logs, LogRow(m, c, type, "failed", "Failed to send notification", t))

RECURSIVE NotifyContacts(_, _, _, _, _, _)
NotifyContacts(logs, m, cs, type, net, t) ==
  IF cs = {} THEN logs
  ELSE LET c == CHOOSE x \in cs : \A y \in cs : x <= y IN
       With(NotifyContact(logs, m, c, type, net[c], t),
            LAMBDA l : NotifyContacts(l, m, cs \ {c}, type, net, t))

\* the contacts a monitor's notification goes to
NotifyTargets(m) ==
  {c \in monitors[m].alert_contacts : contacts[c].is_active /\ contacts[c].is_enabled}

\* a statement of one monitor's notification processing, or of one monitor's
\* stats calculation, throws
NotifyFault(m) == IF m = 1 THEN "notify_monitor_1" ELSE "notify_monitor_2"
StatsFault(m) == IF m = 1 THEN "stats_monitor_1" ELSE "stats_monitor_2"

processMonitorNotification(db, m, net, t, F) ==
  LET i == LatestCheck(db, m)
      p == PrevCheck(db, m, i)
      current == db.checks[i].status
      isDown == current = "down"
      isRecovered == current = "up" /\ p # 0 /\ db.checks[p].status = "down"
      settings == db.monitors[m].alert_settings
      type == IF isDown THEN "down" ELSE IF isRecovered THEN "recovery" ELSE "status_change"
  IN IF NotifyFault(m) \in F THEN db
     ELSE IF NotifyTargets(m) = {} THEN db
     ELSE IF isDown /\ ~settings.notify_on_down THEN db
     ELSE IF isRecovered /\ ~settings.notify_on_up THEN db
     ELSE IF "insert_log" \in F THEN db
     ELSE [db EXCEPT !.alert_logs = NotifyContacts(db.alert_logs, m, NotifyTargets(m), type, net, t)]

RECURSIVE NotifyMonitors(_, _, _, _, _)
NotifyMonitors(db, ms, net, t, F) ==
  IF ms = {} THEN db
  ELSE LET m == CHOOSE x \in ms : \A y \in ms : x <= y IN
       With(processMonitorNotification(db, m, net, t, F),
            LAMBDA d : NotifyMonitors(d, ms \ {m}, net, t, F))

\* DELETE FROM alert_logs WHERE created_at < datetime('now', '-30 days')
PurgeLogs(logs, t) ==
  SelectSeq(logs, LAMBDA r : ~(r.created_at < t - LogRetentionDays * SecondsPerDay))

processNotifications(db, net, t, F) ==
  IF "select_notify" \in F THEN db
  ELSE With(NotifyMonitors(db, {m \in Monitors : NeedsNotification(db, m, t)}, net, t, F),
            LAMBDA d1 : IF "delete_logs" \in F THEN d1
                        ELSE [d1 EXCEPT !.alert_logs = PurgeLogs(d1.alert_logs, t)])

-----------------------------------------------------------------------------
(* statistics.js: the daily aggregation *)

\* SELECT ... WHERE monitor_id = ? AND date(checked_at) = ? ORDER BY checked_at
DayChecks(db, m, d) ==
  SelectSeq(db.checks, LAMBDA c : c.monitor_id = m /\ DateOf(c.checked_at) = d)

RECURSIVE DowntimeScan(_, _, _, _, _, _)
DowntimeScan(cs, i, isInDowntime, downtimeStart, totalSeconds, n) ==
  IF i > Len(cs)
  THEN [totalSeconds |->
          IF isInDowntime
          THEN totalSeconds + (cs[Len(cs)].checked_at - downtimeStart)
          ELSE totalSeconds,
        incidents |-> n]
  ELSE LET isDown == cs[i].status = "down" IN
       IF isDown /\ ~isInDowntime
       THEN DowntimeScan(cs, i + 1, TRUE, cs[i].checked_at, totalSeconds, n + 1)
       ELSE IF ~isDown /\ isInDowntime
       THEN DowntimeScan(cs, i + 1, FALSE, downtimeStart,
                         totalSeconds + (cs[i].checked_at - downtimeStart), n)
       ELSE DowntimeScan(cs, i + 1, isInDowntime, downtimeStart, totalSeconds, n)

\* calculateDowntime: durations are summed in minutes and the sum is rounded
calculateDowntime(cs) ==
  LET r == DowntimeScan(cs, 1, FALSE, 0, 0, 0) IN
  [totalDuration |-> Round(r.totalSeconds, 60), incidents |-> r.incidents]

RECURSIVE SumSeq(_)
SumSeq(q) == IF q = <<>> THEN 0 ELSE Head(q) + SumSeq(Tail(q))

RECURSIVE MinSeq(_)
MinSeq(q) == IF Len(q) = 1 THEN Head(q) ELSE Min(Head(q), MinSeq(Tail(q)))

RECURSIVE MaxSeq(_)
MaxSeq(q) == IF Len(q) = 1 THEN Head(q) ELSE Max(Head(q), MaxSeq(Tail(q)))

\* the values calculateMonitorStats binds for a day's checks (a non-empty list)
DayStatRow(m, d, cs) ==
  LET totalChecks == Len(cs)
      upChecks == Len(SelectSeq(cs, LAMBDA c : c.status = "up"))
      downChecks == Len(SelectSeq(cs, LAMBDA c : c.status = "down"))
      successful == SelectSeq(cs, LAMBDA c :
                      c.status = "up" /\ c.response_time_ms # NULL /\ c.response_time_ms # 0)
      times == [k \in 1..Len(successful) |-> successful[k].response_time_ms]
      downtimeInfo == calculateDowntime(cs)
  IN [NewStatRow(m, d) EXCEPT
        !.total_checks = totalChecks,
        !.up_checks = upChecks,
        !.down_checks = downChecks,
        !.uptime_percentage = <<Round(upChecks * 10000, totalChecks), 100>>,
        !.avg_response_time = IF Len(successful) = 0 THEN 0 ELSE Round(SumSeq(times), Len(times)),
        !.min_response_time = IF Len(successful) = 0 THEN 0 ELSE MinSeq(times),
        !.max_response_time = IF Len(successful) = 0 THEN 0 ELSE MaxSeq(times),
        !.downtime_duration = downtimeInfo.totalDuration,
        !.downtime_incidents = downtimeInfo.incidents]

\* mutant: an existing row is added to instead of replaced
calculateMonitorStatsAdding(db, m, d, F) ==
  LET cs == DayChecks(db, m, d) IN
  IF "select_checks" \in F \/ cs = <<>> \/ "replace_stats" \in F THEN db
  ELSE [db EXCEPT !.stats =
          (db.stats \ StatRows(db, m, d)) \cup
          {[DayStatRow(m, d, cs) EXCEPT !.total_checks =
              IF StatRows(db, m, d) = {} THEN @
              ELSE @ + (CHOOSE r \in StatRows(db, m, d) : TRUE).total_checks]}]

\* calculateMonitorStats: INSERT OR REPLACE of the day's row; nothing without checks
calculateMonitorStats(db, m, d, F) ==
  LET cs == DayChecks(db, m, d) IN
  IF "select_checks" \in F \/ cs = <<>> \/ "replace_stats" \in F \/ StatsFault(m) \in F THEN db
  ELSE [db EXCEPT !.stats = (db.stats \ StatRows(db, m, d)) \cup {DayStatRow(m, d, cs)}]

RECURSIVE StatsForMonitors(_, _, _, _)
StatsForMonitors(db, ms, d, F) ==
  IF ms = {} THEN db
  ELSE LET m == CHOOSE x \in ms : \A y \in ms : x <= y IN
       With(calculateMonitorStats(db, m, d, F),
            LAMBDA d1 : StatsForMonitors(d1, ms \ {m}, d, F))

\* the sum of REAL values <<n, d>> of a set of rows, by field accessor
RECURSIVE SumUptime(_)
SumUptime(rows) ==
  IF rows = {} THEN <<0, 1>>
  ELSE LET r == CHOOSE x \in rows : TRUE
           rest == SumUptime(rows \ {r})
           u == r.uptime_percentage
       IN Reduce(<<Reduce(u)[1] * rest[2] + rest[1] * Reduce(u)[2], Reduce(u)[2] * rest[2]>>)

RECURSIVE SumAvgRt(_)
SumAvgRt(rows) ==
  IF rows = {} THEN 0
  ELSE LET r == CHOOSE x \in rows : TRUE IN r.avg_response_time + SumAvgRt(rows \ {r})

\* Math.round((AVG(uptime_percentage) || 100) * 100) / 100, in hundredths
AvgUptime(rows) ==
  LET s == SumUptime(rows) IN
  IF rows = {} \/ s[1] = 0 THEN 10000
  ELSE Round(s[1] * 100, s[2] * Cardinality(rows))

\* Math.round(AVG(avg_response_time) || 0); AVG skips NULL
AvgResponseTime(rows) ==
  LET have == {r \in rows : r.avg_response_time # NULL} IN
  IF have = {} THEN 0 ELSE Round(SumAvgRt(have), Cardinality(have))

updateMonitorSummaryStats(db, t, F) ==
  IF "update_summary" \in F THEN db
  ELSE [db EXCEPT !.monitors =
          [m \in DOMAIN db.monitors |->
             IF ~db.monitors[m].is_active THEN db.monitors[m]
             ELSE LET r30 == {r \in db.stats : r.monitor_id = m /\ r.date >= DateOf(t) - 30}
                      r7 == {r \in db.stats : r.monitor_id = m /\ r.date >= DateOf(t) - 7}
                  IN [db.monitors[m] EXCEPT
                        !.uptime_30d = AvgUptime(r30),
                        !.uptime_7d = AvgUptime(r7),
                        !.avg_response_time_30d = AvgResponseTime(r30),
                        !.stats_updated_at = t]]]

\* mutant: the rows are kept a day longer
PurgeStatsLate(st, t) == {r \in st : ~(r.date < DateOf(t) - StatsRetentionDays - 1)}

\* DELETE FROM uptime_stats WHERE date < date('now', '-365 days')
PurgeStats(st, t) == {r \in st : ~(r.date < DateOf(t) - StatsRetentionDays)}

calculateStats(db, t, F) ==
  LET today == DateOf(t) IN
  IF "count_stats" \in F THEN db
  ELSE IF {r \in db.stats : r.date = today} # {} THEN db
  ELSE LET active == {m \in Monitors : db.monitors[m].is_active} IN
       IF active = {} THEN db
       ELSE With(StatsForMonitors(db, active, today, F),
                 LAMBDA d1 : IF "delete_stats" \in F THEN d1
                             ELSE With([d1 EXCEPT !.stats = PurgeStats(d1.stats, t)],
                                       LAMBDA d2 : updateMonitorSummaryStats(d2, t, F)))

-----------------------------------------------------------------------------
(* index.js: the cron handler *)

\* SELECT * FROM monitors WHERE is_active = 1 AND (no check with
\* checked_at > datetime('now', '-' || interval_seconds || ' seconds'))
DueMonitors(db, t) ==
  {m \in Monitors :
     /\ db.monitors[m].is_active
     /\ ~\E i \in ChecksOf(db, m) :
           IsoAfterSql(db.checks[i].checked_at, t - db.monitors[m].interval_seconds)}

\* the checks of the batch, each with its probe's outcome, one second apart
CycleRecord(m, out, r) == [monitor |-> m, probe |-> out, ret |-> r.ret]

RECURSIVE RunBatch(_, _, _, _, _, _)
NextInBatch(r, m, ms, pick, t, F, rets) ==
  RunBatch(r.db, ms \ {m}, pick, t + 1, F, Append(rets, CycleRecord(m, pick[m], r)))

LeastOf(ms) == CHOOSE x \in ms : \A y \in ms : x <= y

RunBatch(db, ms, pick, t, F, rets) ==
  IF ms = {} THEN [db |-> db, rets |-> rets, t |-> t]
  ELSE With(runMonitoringCheck(db, LeastOf(ms), pick[LeastOf(ms)], t, F),
            LAMBDA r : NextInBatch(r, LeastOf(ms), ms, pick, t, F, rets))

\* mutant: an exception of processNotifications ends the cron run
AfterBatchStopsOnFault(b, net, F) ==
  [db |-> IF "select_notify" \in F \/ \E m \in Monitors : NotifyFault(m) \in F THEN b.db
          ELSE With(processNotifications(b.db, net, b.t, F),
                    LAMBDA d : calculateStats(d, b.t, F)),
   rets |-> b.rets, t |-> b.t]

\* after Promise.allSettled: the notification pass, then the daily statistics
AfterBatch(b, net, F) ==
  [db |-> With(processNotifications(b.db, net, b.t, F), LAMBDA d : calculateStats(d, b.t, F)),
   rets |-> b.rets, t |-> b.t]

\* mutant: the notification pass and the statistics do not wait for the batch
handleCronNoWait(db, pick, net, t, F) ==
  IF "select_due" \in F THEN [db |-> db, rets |-> <<>>, t |-> t]
  ELSE With(AfterBatch([db |-> db, rets |-> <<>>, t |-> t], net, F),
            LAMBDA a : RunBatch(a.db, DueMonitors(db, t), pick, t, F, <<>>))

handleCron(db, pick, net, t, F) ==
  IF "select_due" \in F THEN [db |-> db, rets |-> <<>>, t |-> t]
  ELSE With(RunBatch(db, DueMonitors(db, t), pick, t, F, <<>>),
            LAMBDA b : AfterBatch(b, net, F))

-----------------------------------------------------------------------------
(* Configuration: the rows the API layer has stored *)

MonitorRow(type, headers, interval, cs, onDown, onUp) ==
  [type |-> type, headers |-> headers, is_active |-> TRUE, interval_seconds |-> interval,
   alert_contacts |-> cs,
   alert_settings |-> [notify_on_down |-> onDown, notify_on_up |-> onUp],
   uptime_30d |-> NULL, uptime_7d |-> NULL, avg_response_time_30d |-> NULL,
   stats_updated_at |-> NULL]

ContactRow(type, settings, active, enabled) ==
  [type |-> type, settings |-> settings, is_active |-> active, is_enabled |-> enabled]

MacRow(m, c, onDown, onUp) ==
  [monitor_id |-> m, alert_contact_id |-> c, notify_on_down |-> onDown, notify_on_up |-> onUp]

\* the clock advances by a day and an hour between calls
TickSteps == {SecondsPerDay + 3600}
\* the statements of a check cycle that can fail, and those of the rest of a cron run
CycleFaultPoints == {"kv_get", "insert_check", "upsert_stats", "update_pct", "select_last",
                     "insert_incident", "resolve_incident", "select_contacts", "kv_put"}
CronFaultPoints == {"select_due", "select_notify", "insert_log", "delete_logs",
                    "count_stats", "select_checks", "replace_stats", "delete_stats",
                    "update_summary"}
FaultPoints == CycleFaultPoints \cup CronFaultPoints

-----------------------------------------------------------------------------
(* The state machine *)

\* a call that sends nothing
NoNet == [c \in Contacts |-> "none"]

\* a request slot without a check cycle in flight
IdleCycle == [monitor |-> 0, probe |-> Result("up", 0, "null"), pc |-> "idle", t |-> 0]
NoCycles == [r \in Requests |-> IdleCycle]

Install(db) ==
  /\ checks' = db.checks
  /\ incidents' = db.incidents
  /\ stats' = db.stats
  /\ kv' = db.kv
  /\ alert_logs' = db.alert_logs
  /\ monitors' = db.monitors

InitTables ==
  /\ now = 0
  /\ ticks = 0
  /\ checks = <<>>
  /\ incidents = <<>>
  /\ stats = {}
  /\ kv = {}
  /\ alert_logs = <<>>
  /\ call = [op |-> "none", rets |-> <<>>, net |-> NoNet]
  /\ cycles = NoCycles

\* monitor 1 is a keyword monitor; monitor 2 has the given type and headers
Config(type2, headers2) ==
  /\ monitors = [m \in Monitors |->
                   IF m = 1 THEN MonitorRow("keyword", "valid", 300, {1, 2, 3, 4}, TRUE, TRUE)
                   ELSE MonitorRow(type2, headers2, 300, {2}, TRUE, FALSE)]
  /\ contacts = [c \in Contacts |->
                   CASE c = 1 -> ContactRow("webhook", "malformed", TRUE, TRUE)
                     [] c = 2 -> ContactRow("webhook", "valid", TRUE, TRUE)
                     [] c = 3 -> ContactRow("email", "valid", TRUE, FALSE)
                     [] OTHER -> ContactRow("slack", "valid", FALSE, TRUE)]
  /\ mac = {MacRow(1, 1, FALSE, TRUE), MacRow(1, 2, TRUE, TRUE),
            MacRow(1, 3, TRUE, FALSE), MacRow(1, 4, TRUE, TRUE),
            MacRow(2, 2, FALSE, FALSE), MacRow(2, 3, TRUE, TRUE)}

Init == InitTables /\ Config("tls", "null")

Commit(r, op, net) ==
  /\ Install(r.db)
  /\ call' = [op |-> op, rets |-> r.rets, net |-> net]
  /\ now' = r.t

OneCycle(r, m, out, t) == [db |-> r.db, rets |-> <<CycleRecord(m, out, r)>>, t |-> t + 1]

\* POST /api/monitors/:id/test -> testMonitor -> runMonitoringCheck
TestMonitor(m, out, F) ==
  /\ Len(checks) < MaxChecks
  /\ \E r \in {runMonitoringCheck(DB, m, out, now, F)} :
       Commit(OneCycle(r, m, out, now), "testMonitor", NoNet)
  /\ UNCHANGED <<ticks, contacts, mac, cycles>>

\* scheduled -> handleCron
HandleCron(pick, net, F) ==
  /\ Len(checks) + Cardinality(DueMonitors(DB, now)) <= MaxBatchChecks
  /\ Len(alert_logs) < MaxLogs
  /\ \E r \in {handleCron(DB, pick, net, now, F)} : Commit(r, "handleCron", net)
  /\ UNCHANGED <<ticks, contacts, mac, cycles>>

\* time passes; KV entries past their TTL are gone
Tick(d) ==
  /\ ticks < MaxTicks
  /\ now' = now + d
  /\ ticks' = ticks + 1
  /\ kv' = {e \in kv : e.expires > now + d}
  /\ call' = [op |-> "tick", rets |-> <<>>, net |-> NoNet]
  /\ UNCHANGED <<monitors, contacts, mac, checks, incidents, stats, alert_logs, cycles>>

\* one probe outcome for each of the two monitors
Picks(RT, F) ==
  {[m \in Monitors |-> IF m = 1 THEN a ELSE b] :
     a \in ProbeOutcomes(monitors[1], RT, F), b \in ProbeOutcomes(monitors[2], RT, F)}

\* what the network does with the request to each contact's destination
Nets == {n \in [Contacts -> {"ok", "fail"}] : \A c \in Contacts \ {2} : n[c] = "ok"}

Next ==
  \/ \E pick \in Picks({40}, {}) : \E net \in Nets : HandleCron(pick, net, {})
  \/ \E d \in TickSteps : Tick(d)

\* the cron-driven system over a healthy store
Spec == Init /\ [][Next]_vars

InitCycle == InitTables /\ \E type2 \in {"ping", "tls"} : Config(type2, "null")

NextCycle ==
  \/ \E m \in Monitors : \E out \in ProbeOutcomes(monitors[m], {40}, {}) : TestMonitor(m, out, {})
  \/ \E d \in TickSteps : Tick(d)

\* check cycles run one at a time through the test route, over a healthy store
SpecCycle == InitCycle /\ [][NextCycle]_vars

FaultConfigs == {<<"http", "malformed">>, <<"heartbeat", "null">>, <<"ssl", "null">>}

\* no fault, or every statement of one kind fails during the call
FaultSets(points) == {{}} \cup {{f} : f \in points}

InitFaults == InitTables /\ \E cfg \in FaultConfigs : Config(cfg[1], cfg[2])

NextFaults ==
  \/ /\ now < MaxFaultCalls
     /\ \E m \in Monitors : \E F \in FaultSets(CycleFaultPoints) :
          \E out \in ProbeOutcomes(monitors[m], {40}, F) : TestMonitor(m, out, F)
  \/ /\ now < MaxFaultCalls
     /\ DueMonitors(DB, now) # {}
     /\ \E F \in FaultSets(CronFaultPoints \cup {"upsert_stats"}) : \E pick \in Picks({40}, F) :
          HandleCron(pick, [c \in Contacts |-> "ok"], F)

\* cycles, and cron runs that find a monitor due, over a store whose statements
\* can fail
SpecFaults == InitFaults /\ [][NextFaults]_vars

-----------------------------------------------------------------------------
(* Properties of the check cycle *)

\* what the last cycle recorded: its row, its monitor, the status before it
LastRow == checks[Len(checks)]
CycleDone == call.op = "testMonitor" /\ Len(call.rets) = 1 /\ checks # <<>>
StatusSeq(m) == LET q == SelectSeq(checks, LAMBDA c : c.monitor_id = m)
                IN [k \in 1..Len(q) |-> q[k].status]
TimeSeq(m) == LET q == SelectSeq(checks, LAMBDA c : c.monitor_id = m)
              IN [k \in 1..Len(q) |-> q[k].checked_at]
IncidentsOf(m) == {i \in DOMAIN incidents : incidents[i].monitor_id = m}

\* C1: after any sequence of completed cycles of one monitor, at most one incident
\* of that monitor has resolved_at = NULL.
C1_AtMostOneOpenIncident ==
  \A m \in Monitors : Cardinality(OpenIncidents(DB, m)) <= 1

\* C2: a cycle whose status and whose previous status are two different non-up
\* statuses is no transition: it opens no incident and enqueues no notification.
C2_NoTransitionWithinDown ==
  [][(/\ call'.op = "testMonitor"
      /\ Len(checks') = Len(checks) + 1
      /\ ~call'.rets[1].probe.threw
      /\ LastStatus([checks |-> checks'], call'.rets[1].monitor) \in DownStatuses
      /\ call'.rets[1].probe.status \in DownStatuses
      /\ call'.rets[1].probe.status # LastStatus([checks |-> checks'], call'.rets[1].monitor))
     => (incidents' = incidents /\ kv' = kv)]_vars

\* C3: for cycles of one monitor with results up, then k >= 1 times down, then up:
\* exactly one incident is opened, by the first down; the later down checks open
\* none; the final up closes it, and no incident of the monitor is open afterwards.
C3_UpDownUp ==
  \A m \in Monitors :
    LET q == StatusSeq(m)
        ts == TimeSeq(m)
    IN \A i \in 1..Len(q) : \A j \in (i + 1)..Len(q) :
         (q[i] = "up" /\ \A k \in (i + 1)..j : q[k] = "down")
         => LET opened == {x \in IncidentsOf(m) :
                            incidents[x].started_at >= ts[i + 1]
                            /\ incidents[x].started_at <= ts[j]}
            IN /\ Cardinality(opened) = 1
               /\ \A x \in opened : incidents[x].started_at = ts[i + 1]
               /\ j = Len(q) => OpenIncidents(DB, m) = opened
               /\ (j < Len(q) /\ q[j + 1] = "up")
                    => /\ \A x \in opened : /\ incidents[x].resolved_at = ts[j + 1]
                                             /\ incidents[x].status = "resolved"
                       /\ j + 1 = Len(q) => OpenIncidents(DB, m) = {}
                       /\ ~\E x \in IncidentsOf(m) : incidents[x].started_at = ts[j + 1]

C3_Witness ==
  /\ StatusSeq(1) = <<"up", "down", "down", "up">>
  /\ Len(incidents) = 1
  /\ incidents[1].status = "resolved"
  /\ OpenIncidents(DB, 1) = {}

\* C4: after every completed cycle, a monitor whose latest recorded check is not up
\* (down, timeout or error, thrown probes included) has an open incident.
C4_NonUpHasOpenIncident ==
  \A m \in Monitors :
    (LatestCheck(DB, m) # 0 /\ checks[LatestCheck(DB, m)].status # "up")
    => OpenIncidents(DB, m) # {}

\* C7: on a transition, queueNotifications enqueues an event for a contact iff
\* (the new status is not up and notify_on_down is set) or (the new status is up,
\* the previous status is not up and notify_on_up is set).
Enqueued(t, m, c) == \E e \in kv : e.key = <<t, m, c>>
C7_QueueEligibility ==
  (CycleDone /\ ~call.rets[1].probe.threw
     /\ LastStatus(DB, call.rets[1].monitor) # call.rets[1].probe.status)
  => LET m == call.rets[1].monitor
         cur == call.rets[1].probe.status
         last == LastStatus(DB, m)
     IN \A c \in Contacts :
          Enqueued(LastRow.checked_at, m, c)
          <=> \E r \in mac :
                /\ r.monitor_id = m /\ r.alert_contact_id = c /\ contacts[c].is_active
                /\ \/ (cur # "up" /\ r.notify_on_down)
                   \/ (cur = "up" /\ last # "up" /\ r.notify_on_up)

\* a recovery: the contact with notify_on_down off and notify_on_up on has an event
\* for the up check and none for the down check before it
C7_Witness ==
  /\ CycleDone /\ call.rets[1].monitor = 1
  /\ StatusSeq(1) = <<"up", "down", "up">>
  /\ Enqueued(TimeSeq(1)[3], 1, 1)
  /\ ~Enqueued(TimeSeq(1)[2], 1, 1)
  /\ Enqueued(TimeSeq(1)[2], 1, 2)

-----------------------------------------------------------------------------
(* Properties of a cycle over a failing store *)

\* C5: runMonitoringCheck never rejects to its caller: whatever the monitor's type
\* and whichever statement of the probe, the datastore or the KV store fails, it
\* resolves to a result whose status is one of up, down, timeout, error.
C5_NeverRejects ==
  \A k \in DOMAIN call.rets :
    /\ call.rets[k].ret.kind = "resolved"
    /\ call.rets[k].ret.status \in Statuses

\* a probe that threw, with the insert of the error row failing as well
C5_Witness ==
  /\ call.op = "testMonitor"
  /\ call.rets[1].probe.threw
  /\ checks = <<>>
  /\ call.rets[1].ret = [kind |-> "resolved", status |-> "error"]

-----------------------------------------------------------------------------
(* Properties of the notification pass *)

IsTransition(a, b) ==
  \/ (a = "up" /\ b \in DownStatuses)
  \/ (a \in DownStatuses /\ b = "up")

\* every transition recorded so far has its row for each notified contact
TransitionsLogged(cs, logs) ==
  \A m \in Monitors : \A c \in NotifyTargets(m) :
    LET q == SelectSeq(cs, LAMBDA x : x.monitor_id = m) IN
    \A k \in 1..(Len(q) - 1) :
      IsTransition(q[k].status, q[k + 1].status)
      => \E i \in DOMAIN logs :
           /\ logs[i].monitor_id = m
           /\ logs[i].alert_contact_id = c
           /\ logs[i].created_at >= q[k + 1].checked_at

\* C6: every transition of a monitor (up followed by down, timeout or error, or a
\* non-up check followed by up) eventually has a notification attempt logged in
\* alert_logs for each active and enabled contact of the monitor, as long as the
\* cron handler keeps running.  What a cron run writes to alert_logs is decided by
\* the checks and the clock alone, and its trailing window only recedes; a run that
\* records no check and adds no row therefore shows what every later run without a
\* new check does.  So: when such a run has completed, no transition is unlogged.
C6_TransitionsNotified ==
  [][(call'.op = "handleCron" /\ checks' = checks /\ alert_logs' = alert_logs)
     => TransitionsLogged(checks', alert_logs')]_vars

\* the rows a step appended to alert_logs
NewLogs == SubSeq(alert_logs', Len(alert_logs) + 1, Len(alert_logs'))

\* the monitors the pass of the step dispatches for
Dispatched(m) ==
  /\ NeedsNotification([checks |-> checks', monitors |-> monitors'], m, now')
  /\ monitors'[m].alert_settings.notify_on_down
  /\ monitors'[m].alert_settings.notify_on_up

\* C8: in processMonitorNotification a delivery that throws is logged as a 'failed'
\* row with the exception's message and the remaining contacts are still attempted;
\* every attempted contact gets exactly one row, 'sent' iff its send succeeded.
C8_OneRowPerContact ==
  [][call'.op = "handleCron" =>
      \A m \in Monitors : Dispatched(m) =>
        \A c \in Contacts :
          LET mine == {k \in DOMAIN NewLogs :
                         NewLogs[k].monitor_id = m /\ NewLogs[k].alert_contact_id = c}
              sent == sendNotification(contacts[c], call'.net[c])
          IN IF c \in NotifyTargets(m)
             THEN /\ Cardinality(mine) = 1
                  /\ \A k \in mine :
                        /\ NewLogs[k].status \in {"sent", "failed"}
                        /\ NewLogs[k].status = "sent" <=> sent = "true"
                        /\ sent = "throw" => NewLogs[k].message = "exception message"
             ELSE mine = {}]_vars

\* contact 1 threw and has its 'failed' row, contact 2 after it was sent to
C8_Witness ==
  /\ call.op = "handleCron"
  /\ Len(alert_logs) >= 2
  /\ \E i \in DOMAIN alert_logs : \E j \in DOMAIN alert_logs :
       /\ i < j
       /\ alert_logs[i].monitor_id = 1 /\ alert_logs[j].monitor_id = 1
       /\ alert_logs[i].created_at = now /\ alert_logs[j].created_at = now
       /\ alert_logs[i].alert_contact_id = 1 /\ alert_logs[i].status = "failed"
       /\ alert_logs[i].message = "exception message"
       /\ alert_logs[j].alert_contact_id = 2 /\ alert_logs[j].status = "sent"

-----------------------------------------------------------------------------
(* Properties of the daily aggregation *)

\* the columns the aggregation computes from the raw checks
SameAggregate(r, x) ==
  /\ r.total_checks = x.total_checks
  /\ r.up_checks = x.up_checks
  /\ r.down_checks = x.down_checks
  /\ RealEq(r.uptime_percentage, x.uptime_percentage)
  /\ r.avg_response_time = x.avg_response_time
  /\ r.min_response_time = x.min_response_time
  /\ r.max_response_time = x.max_response_time
  /\ r.downtime_duration = x.downtime_duration
  /\ r.downtime_incidents = x.downtime_incidents

\* C9: after the daily aggregation has run for a date, every active monitor with a
\* check on that date has a row holding the values recomputed from the raw checks
\* of the date, whatever the per-check upsert had stored in it.
C9_AggregateOverwrites ==
  call.op = "handleCron" =>
    \A m \in Monitors :
      (monitors[m].is_active /\ DayChecks(DB, m, DateOf(now)) # <<>>)
      => \E r \in StatRows(DB, m, DateOf(now)) :
           SameAggregate(r, DayStatRow(m, DateOf(now), DayChecks(DB, m, DateOf(now))))

SameStats(a, b) == a.stats = b.stats

\* C10: running the daily aggregation twice for a date, with no check recorded in
\* between, leaves every row of the date as the first run left it.
C10_AggregationIdempotent ==
  /\ SameStats(calculateStats(calculateStats(DB, now, {}), now, {}),
               calculateStats(DB, now, {}))
  /\ \A m \in Monitors :
       SameStats(calculateMonitorStats(calculateMonitorStats(DB, m, DateOf(now), {}),
                                       m, DateOf(now), {}),
                 calculateMonitorStats(DB, m, DateOf(now), {}))

\* checks of today without a row: the first run writes, the second changes nothing
C10_Witness ==
  /\ \E i \in DOMAIN checks : DateOf(checks[i].checked_at) = DateOf(now)
  /\ ~SameStats(calculateStats(DB, now, {}), DB)
  /\ SameStats(calculateStats(calculateStats(DB, now, {}), now, {}),
               calculateStats(DB, now, {}))

-----------------------------------------------------------------------------
(* calculateDowntime on the checks of one day *)

MaxDayChecks == 5     \* checks of the day handed to calculateDowntime
CheckSpacing == 300   \* seconds between two checks of the day

\* the day's checks of monitor 1: one every five minutes from midnight
DayLists == UNION {[1..n -> Statuses] : n \in 1..MaxDayChecks}

DayRow(k, st) ==
  [id |-> k, monitor_id |-> 1, status |-> st,
   response_time_ms |-> IF st = "up" THEN 40 ELSE NULL,
   error_message |-> IF st = "up" THEN "null" ELSE "message",
   checked_at |-> (k - 1) * CheckSpacing]

InitDowntime ==
  /\ now = MaxDayChecks * CheckSpacing
  /\ ticks = 0
  /\ \E q \in DayLists : checks = [k \in 1..Len(q) |-> DayRow(k, q[k])]
  /\ incidents = <<>>
  /\ stats = {}
  /\ kv = {}
  /\ alert_logs = <<>>
  /\ call = [op |-> "none", rets |-> <<>>, net |-> NoNet]
  /\ cycles = NoCycles
  /\ Config("ping", "null")

\* calculateMonitorStats' call: calculateDowntime(checks.results)
CalculateDowntime ==
  /\ call.op = "none"
  /\ call' = [op |-> "calculateDowntime",
              rets |-> <<calculateDowntime(DayChecks(DB, 1, DateOf(now)))>>,
              net |-> NoNet]
  /\ UNCHANGED <<now, ticks, monitors, contacts, mac, checks, incidents, stats, kv, alert_logs,
                 cycles>>

NextDowntime == CalculateDowntime

\* the downtime sweep applied to every short list of a day's checks
SpecDowntime == InitDowntime /\ [][NextDowntime]_vars

\* the down runs of a list: a run is entered by a check that is not up and follows
\* an up check or starts the list; it is closed by the first up check after it
RunEntries(cs) ==
  {i \in 1..Len(cs) : cs[i].status # "up" /\ (i = 1 \/ cs[i - 1].status = "up")}

RunEnd(cs, i) ==
  LET ups == {j \in (i + 1)..Len(cs) : cs[j].status = "up"} IN
  IF ups = {} THEN Len(cs) ELSE CHOOSE j \in ups : \A k \in ups : j <= k

RECURSIVE RunSeconds(_, _)
RunSeconds(cs, es) ==
  IF es = {} THEN 0
  ELSE LET i == CHOOSE x \in es : TRUE
       IN (cs[RunEnd(cs, i)].checked_at - cs[i].checked_at) + RunSeconds(cs, es \ {i})

\* C11: calculateDowntime counts one incident per entry into a down run, adds (time
\* of the first following up check - start of the run) for every closed run and
\* (time of the last check - start of the run) for a run still open at the end.
C11_DowntimeSweep ==
  call.op = "calculateDowntime" =>
    /\ call.rets[1].incidents = Cardinality(RunEntries(checks))
    /\ call.rets[1].totalDuration = Round(RunSeconds(checks, RunEntries(checks)), 60)

-----------------------------------------------------------------------------
(* The cron handler on its schedule *)

\* the clock advances by ten minutes, or by a day and an hour, between cron runs
ScheduleSteps == {600, SecondsPerDay + 3600}

\* the alert contacts and their links to the monitors, as in Config
ContactRows ==
  [c \in Contacts |->
     CASE c = 1 -> ContactRow("webhook", "malformed", TRUE, TRUE)
       [] c = 2 -> ContactRow("webhook", "valid", TRUE, TRUE)
       [] c = 3 -> ContactRow("email", "valid", TRUE, FALSE)
       [] OTHER -> ContactRow("slack", "valid", FALSE, TRUE)]
LinkRows ==
  {MacRow(1, 1, FALSE, TRUE), MacRow(1, 2, TRUE, TRUE),
   MacRow(1, 3, TRUE, FALSE), MacRow(1, 4, TRUE, TRUE),
   MacRow(2, 2, FALSE, FALSE), MacRow(2, 3, TRUE, TRUE)}

\* monitor 1 has the given type; monitor 2 is a ping monitor, active or not
ConfigSchedule(type1, active2) ==
  /\ monitors = [m \in Monitors |->
                   IF m = 1 THEN MonitorRow(type1, "valid", 300, {1, 2, 3, 4}, TRUE, TRUE)
                   ELSE [MonitorRow("ping", "null", 600, {2}, TRUE, FALSE)
                           EXCEPT !.is_active = active2]]
  /\ contacts = ContactRows
  /\ mac = LinkRows

ScheduleConfigs == {<<"tls", TRUE>>, <<"keyword", FALSE>>}

InitSchedule == InitTables /\ \E cfg \in ScheduleConfigs : ConfigSchedule(cfg[1], cfg[2])

\* one probe outcome for each monitor the run selects; a monitor that is not
\* selected is not probed, and its entry is never read
DuePicks ==
  {pick \in Picks({40}, {}) :
     \A m \in Monitors \ DueMonitors(DB, now) :
       pick[m] = CHOOSE out \in ProbeOutcomes(monitors[m], {40}, {}) : TRUE}

NextSchedule ==
  \/ \E pick \in DuePicks : \E net \in Nets : HandleCron(pick, net, {})
  \/ \E d \in ScheduleSteps : Tick(d)

\* cron runs ten minutes or a day apart, over a healthy store
SpecSchedule == InitSchedule /\ [][NextSchedule]_vars

\* the rows a step appended to monitor_checks
NewChecks == SubSeq(checks', Len(checks) + 1, Len(checks'))

\* C12: handleCron waits for every runMonitoringCheck of the batch to settle before
\* it starts processNotifications and calculateStats, and the failure of one
\* monitor's check does not prevent any other monitor of the batch from being
\* checked: every monitor selected has its settled cycle and its row, the
\* notification pass works on the rows of the whole batch and writes after them.
C12_BatchSettlesFirst ==
  [][call'.op = "handleCron" =>
       /\ {call'.rets[k].monitor : k \in DOMAIN call'.rets} = DueMonitors(DB, now)
       /\ Len(call'.rets) = Cardinality(DueMonitors(DB, now))
       /\ \A m \in DueMonitors(DB, now) :
            \E i \in DOMAIN NewChecks :
              NewChecks[i].monitor_id = m /\ NewChecks[i].checked_at >= now
       /\ \A l \in DOMAIN NewLogs : \A i \in DOMAIN NewChecks :
            NewLogs[l].created_at > NewChecks[i].checked_at
       /\ \A m \in Monitors : Dispatched(m) =>
            \A c \in NotifyTargets(m) :
              \E l \in DOMAIN NewLogs :
                NewLogs[l].monitor_id = m /\ NewLogs[l].alert_contact_id = c]_vars

\* the first monitor's probe threw; the second was checked all the same, and the
\* pass after the batch logged the attempts for both
C12_Witness ==
  /\ call.op = "handleCron"
  /\ Len(call.rets) = 2
  /\ call.rets[1].monitor = 1 /\ call.rets[1].probe.threw
  /\ call.rets[2].monitor = 2 /\ ~call.rets[2].probe.threw
  /\ \E i \in DOMAIN checks : checks[i].monitor_id = 2 /\ checks[i].checked_at = now - 1
  /\ \E l \in DOMAIN alert_logs :
       alert_logs[l].monitor_id = 2 /\ alert_logs[l].created_at = now

\* C14: handleCron selects a monitor for checking iff the monitor is active and no
\* check of it was recorded within its last interval_seconds: a monitor without a
\* check is selected, and so is one whose interval has elapsed since its last check.
C14_DueSelection ==
  [][call'.op = "handleCron" =>
       \A m \in Monitors :
         (\E k \in DOMAIN call'.rets : call'.rets[k].monitor = m)
         <=> /\ monitors[m].is_active
             /\ ~\E i \in ChecksOf(DB, m) :
                   checks[i].checked_at > now - monitors[m].interval_seconds]_vars

-----------------------------------------------------------------------------
(* Check cycles that run at the same time: runMonitoringCheck gives way at every
   await, and nothing keeps a second request (another cron invocation, the test
   route) from starting a cycle of a monitor that has one in flight *)

MaxOverlapChecks == 3   \* cycles started, over all requests

\* the probe of a new cycle has settled with `out`; checked_at is stamped
BeginCycle(r, m, out) ==
  /\ cycles[r].pc = "idle"
  /\ now < MaxOverlapChecks
  /\ cycles' = [cycles EXCEPT ![r] = [monitor |-> m, probe |-> out, pc |-> "probed", t |-> now]]
  /\ now' = now + 1
  /\ UNCHANGED <<ticks, monitors, contacts, mac, checks, incidents, stats, kv, alert_logs, call>>

CycleReturn(r, ret) ==
  [op |-> "runMonitoringCheck",
   rets |-> <<[monitor |-> cycles[r].monitor, probe |-> cycles[r].probe, ret |-> ret]>>,
   net |-> NoNet]

\* await saveCheckResult(monitor.id, result, env); a probe that threw is saved by
\* the catch block, which returns
SaveStep(r) ==
  /\ cycles[r].pc = "probed"
  /\ IF cycles[r].probe.threw
     THEN \E c \in {CatchBlock(DB, cycles[r].monitor, cycles[r].probe.error_message,
                               cycles[r].t, {})} :
            /\ Install(c.db)
            /\ call' = CycleReturn(r, c.ret)
            /\ cycles' = [cycles EXCEPT ![r] = IdleCycle]
     ELSE \E s \in {saveCheckResult(DB, cycles[r].monitor, cycles[r].probe, cycles[r].t, {})} :
            /\ Install(s.db)
            /\ call' = call
            /\ cycles' = [cycles EXCEPT ![r].pc = "saved"]
  /\ UNCHANGED <<now, ticks, contacts, mac>>

\* await handleStatusChange(monitor, result, env); return result
StatusStep(r) ==
  /\ cycles[r].pc = "saved"
  /\ \E h \in {handleStatusChange(DB, cycles[r].monitor, cycles[r].probe, cycles[r].t, {})} :
       Install(h.db)
  /\ call' = CycleReturn(r, Resolved(cycles[r].probe))
  /\ cycles' = [cycles EXCEPT ![r] = IdleCycle]
  /\ UNCHANGED <<now, ticks, contacts, mac>>

NextOverlap ==
  \/ \E r \in Requests : \E m \in Monitors :
       \E out \in ProbeOutcomes(monitors[m], {40}, {}) : BeginCycle(r, m, out)
  \/ \E r \in Requests : SaveStep(r)
  \/ \E r \in Requests : StatusStep(r)

\* requests whose cycles interleave at the awaits of runMonitoringCheck
SpecOverlap == InitCycle /\ [][NextOverlap]_vars

\* C13: for one monitor no two cycles overlap: no request runs the save or the
\* transition step of a cycle while another cycle of the same monitor is between
\* saving its result and finishing handleStatusChange.
C13_NoOverlap ==
  [][\A q \in Requests :
       (cycles[q].pc \in {"probed", "saved"} /\ cycles'[q] # cycles[q])
       => ~\E p \in Requests \ {q} :
             cycles[p].monitor = cycles[q].monitor /\ cycles[p].pc = "saved"]_vars

-----------------------------------------------------------------------------
(* Cycles over a store whose insert into monitor_checks can fail *)

MaxPersistCalls == 3   \* seconds of cycles over the failing insert

PersistFaults == {{}, {"insert_check"}}

InitPersist == InitTables /\ Config("ping", "null")

NextPersist ==
  \/ /\ now < MaxPersistCalls
     /\ \E m \in Monitors : \E F \in PersistFaults :
          \E out \in ProbeOutcomes(monitors[m], {40}, F) : TestMonitor(m, out, F)
  \/ /\ now < MaxPersistCalls
     /\ DueMonitors(DB, now) # {}
     /\ \E F \in PersistFaults : \E pick \in Picks({40}, F) :
          HandleCron(pick, [c \in Contacts |-> "ok"], F)

\* cycles and cron runs during which the insert of the check row can fail
SpecPersist == InitPersist /\ [][NextPersist]_vars

\* the incidents and the queued notifications of one monitor
MonitorEffects(db, m) ==
  [incidents |-> SelectSeq(db.incidents, LAMBDA i : i.monitor_id = m),
   queued |-> {e \in db.kv : e.value.monitorId = m}]

\* C15: if persisting a check result fails, the failure is swallowed: the same
\* cycle still runs handleStatusChange for that monitor and returns the probe's
\* result, and the other monitors of the batch are still checked and
\* transition-handled.  (A step of cycles that appends no row to monitor_checks is
\* one whose insert failed.)
C15_PersistFailureSwallowed ==
  [][(call'.op \in {"testMonitor", "handleCron"} /\ call'.rets # <<>> /\ checks' = checks)
     => /\ call'.op = "handleCron" => Len(call'.rets) = Cardinality(DueMonitors(DB, now))
        /\ \A k \in DOMAIN call'.rets :
             ~call'.rets[k].probe.threw =>
             /\ call'.rets[k].ret = Resolved(call'.rets[k].probe)
             /\ MonitorEffects([incidents |-> incidents', kv |-> kv'], call'.rets[k].monitor)
                = MonitorEffects(handleStatusChange(DB, call'.rets[k].monitor,
                                                    call'.rets[k].probe, now + k - 1, {}).db,
                                 call'.rets[k].monitor)]_vars

\* a batch of two whose rows were both lost: each monitor has its incident
C15_Witness ==
  /\ call.op = "handleCron"
  /\ Len(call.rets) = 2
  /\ checks = <<>>
  /\ \A m \in Monitors : Cardinality(OpenIncidents(DB, m)) = 1
  /\ \E e \in kv : e.value.monitorId = 1

-----------------------------------------------------------------------------
(* More properties of the check cycle *)

\* C16: when the status of the new check equals the status of the monitor's
\* previous check, handleStatusChange creates no incident, resolves no incident
\* and enqueues no notification.
C16_SameStatusNoAction ==
  [][(/\ call'.op = "testMonitor"
      /\ Len(checks') = Len(checks) + 1
      /\ ~call'.rets[1].probe.threw
      /\ LastStatus([checks |-> checks'], call'.rets[1].monitor)
           = call'.rets[1].probe.status)
     => (incidents' = incidents /\ kv' = kv)]_vars

\* two timeouts in a row: one incident, and nothing queued for the second
C16_Witness ==
  /\ CycleDone /\ call.rets[1].monitor = 1
  /\ StatusSeq(1) = <<"timeout", "timeout">>
  /\ Cardinality(IncidentsOf(1)) = 1
  /\ kv # {}
  /\ \A e \in kv : e.value.timestamp = TimeSeq(1)[1]

-----------------------------------------------------------------------------
(* A monitor of an unsupported type in the batch *)

Unsupported(m) == monitors[m].type \notin SupportedTypes

\* C17, as stated: for a monitor whose kind is not supported, the execution is
\* surfaced to the caller as rejected.
C17_UnsupportedRejected ==
  \A k \in DOMAIN call.rets :
    Unsupported(call.rets[k].monitor) => call.rets[k].ret.kind = "rejected"

\* C17, amended: for a monitor whose kind is not supported, runMonitoringCheck
\* resolves with a result of status error that carries the message of the thrown
\* error; that result is saved as the cycle's one row, without retry and without
\* transition handling; the other monitors of the batch are still processed.
C17_UnsupportedResolvesError ==
  [][call'.op = "handleCron" =>
       \A k \in DOMAIN call'.rets :
         Unsupported(call'.rets[k].monitor) =>
           LET m == call'.rets[k].monitor
               rows == {i \in DOMAIN NewChecks : NewChecks[i].monitor_id = m}
           IN /\ call'.rets[k].ret = [kind |-> "resolved", status |-> "error"]
              /\ Cardinality(rows) = 1
              /\ \A i \in rows :
                   /\ NewChecks[i].status = "error"
                   /\ NewChecks[i].response_time_ms = NULL
                   /\ NewChecks[i].error_message = "Unsupported monitor type"
              /\ MonitorEffects([incidents |-> incidents', kv |-> kv'], m)
                 = MonitorEffects(DB, m)
              /\ \A o \in DueMonitors(DB, now) \ {m} :
                   /\ \E j \in DOMAIN call'.rets : call'.rets[j].monitor = o
                   /\ \E i \in DOMAIN NewChecks : NewChecks[i].monitor_id = o]_vars

\* monitor 1 has the type 'tls': its cycle resolved with the error result, and
\* the ping monitor after it went down and has its incident
C17_Witness ==
  /\ call.op = "handleCron"
  /\ Len(call.rets) = 2
  /\ Unsupported(1)
  /\ call.rets[1].monitor = 1
  /\ call.rets[1].ret = [kind |-> "resolved", status |-> "error"]
  /\ IncidentsOf(1) = {}
  /\ call.rets[2].ret = [kind |-> "resolved", status |-> "down"]
  /\ OpenIncidents(DB, 2) # {}

-----------------------------------------------------------------------------
(* http monitors: the fetch, the expected status codes *)

MaxHttpChecks == 1   \* cycles of the http monitors in a behaviour

\* a part of an expression of status codes: a single code or an inclusive range,
\* written with or without blanks
Single(c, pad) == [lo |-> c, hi |-> c, range |-> FALSE, pad |-> pad]
Span(lo, hi, pad) == [lo |-> lo, hi |-> hi, range |-> TRUE, pad |-> pad]

Parts == {Single(200, FALSE), Single(304, FALSE), Single(404, TRUE),
          Span(200, 299, FALSE), Span(300, 304, TRUE), Span(500, 499, FALSE)}

PartLists == UNION {[1..n -> Parts] : n \in 1..2}

\* the text of a part, and of a list of parts separated by commas
RenderPart(p) ==
  IF p.range
  THEN DigitsOf(p.lo) \o (IF p.pad THEN <<" ", "-", " ">> ELSE <<"-">>) \o DigitsOf(p.hi)
  ELSE IF p.pad THEN <<" ">> \o DigitsOf(p.lo) \o <<" ">> ELSE DigitsOf(p.lo)

RECURSIVE Render(_)
Render(ps) ==
  IF Len(ps) = 1 THEN RenderPart(ps[1])
  ELSE RenderPart(ps[1]) \o <<",">> \o Render(Tail(ps))

\* the values of the column expected_status_codes
CodeExprs == {NullText, <<>>} \cup {Render(ps) : ps \in PartLists}

\* what the fetch of an http monitor settles with
AllFetches == {Response(200), Response(204), Response(304), Response(404),
               TimedOut, Aborted, Refused, DnsFailed}

HttpMonitorRow(type, codes) ==
  MonitorRow(type, "null", 300, {2}, TRUE, FALSE)
  @@ [timeout_seconds |-> 30, expected_status_codes |-> codes]

\* monitor 1 is an https monitor without expected codes; monitor 2 is an http
\* monitor with the given expression
ConfigHttp(codes) ==
  /\ monitors = [m \in Monitors |->
                   IF m = 1 THEN HttpMonitorRow("https", NullText)
                   ELSE HttpMonitorRow("http", codes)]
  /\ contacts = ContactRows
  /\ mac = LinkRows

InitHttp == InitTables /\ \E codes \in CodeExprs : ConfigHttp(codes)

\* a cycle of an http or https monitor: case 'http': case 'https': checkHTTP
NextHttp ==
  /\ Len(checks) < MaxHttpChecks
  /\ \E m \in Monitors : \E f \in AllFetches :
       /\ monitors[m].type \in {"http", "https"}
       /\ TestMonitor(m, checkHTTPResult(monitors[m], f, 40), {})

\* cycles of http monitors over every expression of expected codes
SpecHttp == InitHttp /\ [][NextHttp]_vars

\* the codes an expression names
Named(ps) == UNION {ps[k].lo..ps[k].hi : k \in DOMAIN ps}
NamedCodes(expr) ==
  IF expr = NullText \/ expr = <<>> THEN {200}
  ELSE Named(CHOOSE ps \in PartLists : Render(ps) = expr)

\* C18: for an http/https probe, a request that exceeds timeout_seconds yields
\* status timeout, and any other transport failure (connection refused, DNS
\* failure) yields status down or error, never timeout.
C18_TransportFailureNotTimeout ==
  CycleDone =>
    LET m == call.rets[1].monitor
        probe == call.rets[1].probe
    IN /\ \A f \in {TimedOut, Aborted} :
            probe = checkHTTPResult(monitors[m], f, 40) => probe.status = "timeout"
       /\ \A f \in {Refused, DnsFailed} :
            probe = checkHTTPResult(monitors[m], f, 40) => probe.status \in {"down", "error"}

\* C19: for an http/https probe that receives a response, the result is up iff the
\* response status code is a member of the set parsed from expected_status_codes,
\* and otherwise down with an error_message that contains the received code.
C19_UpIffExpected ==
  \A m \in Monitors :
    With(NamedCodes(monitors[m].expected_status_codes),
         LAMBDA expected :
           \A f \in AllFetches :
             f.kind = "response" =>
               With(checkHTTPResult(monitors[m], f, 40),
                    LAMBDA r :
                      /\ r.status = "up" <=> f.status \in expected
                      /\ f.status \in expected => r = Result("up", 40, "null")
                      /\ f.status \notin expected
                           => r = Result("down", 40,
                                         "Unexpected status code: "
                                           \o ToString(f.status))))

\* a 404 against "200-299": down, and the message carries 404
C19_Witness ==
  /\ CycleDone
  /\ call.rets[1].monitor = 2
  /\ monitors[2].expected_status_codes = <<"2", "0", "0", "-", "2", "9", "9">>
  /\ call.rets[1].probe = Result("down", 40, "Unexpected status code: 404")
  /\ LastRow.status = "down"

\* C20: parseStatusCodes returns, for a comma-separated expression of single codes
\* and inclusive ranges, exactly the codes named, and [200] for a null or empty
\* expression.
C20_ParseStatusCodes ==
  \A m \in Monitors :
    LET expr == monitors[m].expected_status_codes IN
    With(parseStatusCodes(expr),
         LAMBDA codes :
           /\ (expr = NullText \/ expr = <<>>) => codes = <<200>>
           /\ \A ps \in PartLists :
                expr = Render(ps) => {codes[i] : i \in DOMAIN codes} = Named(ps))

\* "200-299,304": the codes 200..299 and 304, and a cycle that found the monitor up
C20_Witness ==
  /\ CycleDone
  /\ call.rets[1].monitor = 2
  /\ call.rets[1].probe.status = "up"
  /\ monitors[2].expected_status_codes
       = <<"2", "0", "0", "-", "2", "9", "9", ",", "3", "0", "4">>
  /\ {parseStatusCodes(monitors[2].expected_status_codes)[i] :
        i \in 1..Len(parseStatusCodes(monitors[2].expected_status_codes))}
     = (200..299) \cup {304}

-----------------------------------------------------------------------------
(* keyword monitors: the http check, then the body *)

MaxKeywordChecks == 1   \* cycles of the keyword monitors in a behaviour

Keywords == {<<"o", "k">>, <<"d", "o", "w", "n">>}
KeywordTypes == {"exists", "not_exists"}

\* what the first fetch settles with, and what the fetch of the body settles with
KeywordFetches == {Response(200), Response(404), TimedOut}
Bodies == {<<>>, <<"o", "k">>, <<"n", "o", "t", " ", "o", "k">>, <<"o", " ", "k">>,
           <<"s", "l", "o", "w", "d", "o", "w", "n">>}
BodyFetches == {Page(200, b) : b \in Bodies} \cup {Page(500, <<"d", "o", "w", "n">>), Refused}

KeywordMonitorRow(keyword, keywordType) ==
  HttpMonitorRow("keyword", NullText) @@ [keyword |-> keyword, keyword_type |-> keywordType]

\* both monitors are keyword monitors, each with its keyword and its match mode
ConfigKeyword(kw, kt) ==
  /\ monitors = [m \in Monitors |-> KeywordMonitorRow(kw[m], kt[m])]
  /\ contacts = ContactRows
  /\ mac = LinkRows

InitKeyword ==
  InitTables /\ \E kw \in [Monitors -> Keywords] : \E kt \in [Monitors -> KeywordTypes] :
                  ConfigKeyword(kw, kt)

\* a cycle of a keyword monitor: case 'keyword': checkKeyword
NextKeyword ==
  /\ Len(checks) < MaxKeywordChecks
  /\ \E m \in Monitors : \E f \in KeywordFetches : \E second \in BodyFetches :
       /\ monitors[m].type = "keyword"
       /\ TestMonitor(m, checkKeywordResult(monitors[m], f, 40, second), {})

\* cycles of keyword monitors over every keyword, match mode, response and body
SpecKeyword == InitKeyword /\ [][NextKeyword]_vars

\* C21: a keyword probe returns the http result unchanged when the http check is
\* not up; otherwise its status is up iff (keyword_type is exists and the keyword
\* is in the body) or (keyword_type is not_exists and the keyword is absent), and
\* keyword_found is set on the result in every case.
C21_KeywordProbe ==
  CycleDone =>
    \A f \in KeywordFetches : \A second \in BodyFetches :
      LET mon == monitors[call.rets[1].monitor]
          http == checkHTTPResult(mon, f, 40)
          r == call.rets[1].probe
          found == second.kind = "response" /\ Includes(second.body, mon.keyword)
      IN r = checkKeywordResult(mon, f, 40, second) =>
           IF http.status # "up" THEN r = http
           ELSE /\ r.status = "up" <=> \/ (mon.keyword_type = "exists" /\ found)
                                       \/ (mon.keyword_type = "not_exists" /\ ~found)
                /\ "keyword_found" \in DOMAIN r
                /\ r.keyword_found = found

-----------------------------------------------------------------------------
(* heartbeat monitors: the age of the stored heartbeat *)

MaxHeartbeatChecks == 2   \* cycles of the heartbeat monitors in a behaviour

HeartbeatIntervals == {60, 300}

\* how old the stored heartbeat can be, in milliseconds: fresh, a millisecond
\* short of 2 x interval, exactly 2 x interval, a millisecond past it, 3 x interval
Ages(mon) ==
  {0, mon.interval_seconds * 2000 - 1, mon.interval_seconds * 2000,
   mon.interval_seconds * 2000 + 1, mon.interval_seconds * 3000}

\* what the KV can hold for a monitor at nowMs
Heartbeats(mon, nowMs) == {NoHeartbeat} \cup {Stored(nowMs - a) : a \in Ages(mon)}

\* both monitors are heartbeat monitors, each with its interval
ConfigHeartbeat(iv) ==
  /\ monitors = [m \in Monitors |->
                   MonitorRow("heartbeat", "null", iv[m], {2}, TRUE, FALSE)]
  /\ contacts = ContactRows
  /\ mac = LinkRows

InitHeartbeat == InitTables /\ \E iv \in [Monitors -> HeartbeatIntervals] : ConfigHeartbeat(iv)

\* a cycle of a heartbeat monitor: case 'heartbeat': checkHeartbeat
NextHeartbeat ==
  /\ Len(checks) < MaxHeartbeatChecks
  /\ \E m \in Monitors : \E hb \in Heartbeats(monitors[m], now * 1000) :
       /\ monitors[m].type = "heartbeat"
       /\ TestMonitor(m, checkHeartbeatResult(monitors[m], hb, now * 1000), {})

\* cycles of heartbeat monitors over every age of the stored heartbeat
SpecHeartbeat == InitHeartbeat /\ [][NextHeartbeat]_vars

\* C22: a heartbeat probe is up iff a heartbeat timestamp is stored for the
\* monitor and now minus that timestamp is at most 2 x interval_seconds (the
\* boundary value is up); with no stored heartbeat it is down with the message
\* "No heartbeat received".
C22_HeartbeatFreshness ==
  CycleDone =>
    LET mon == monitors[call.rets[1].monitor]
        r == call.rets[1].probe
        t == LastRow.checked_at
    IN \A hb \in Heartbeats(mon, t * 1000) :
         r = checkHeartbeatResult(mon, hb, t * 1000) =>
           /\ r.status \in {"up", "down"}
           /\ r.status = "up" <=>
                (hb.stored /\ t * 1000 - hb.at <= 2 * mon.interval_seconds * 1000)
           /\ ~hb.stored => r.status = "down" /\ r.error_message = "No heartbeat received"

\* a heartbeat exactly 2 x interval_seconds old: the monitor is up; and a cycle
\* without any heartbeat: down, "No heartbeat received"
C22_Witness ==
  /\ CycleDone
  /\ Len(checks) = 2
  /\ checks[1].status = "down" /\ checks[1].error_message = "No heartbeat received"
  /\ call.rets[1].probe =
       Result("up", 2 * monitors[call.rets[1].monitor].interval_seconds * 1000, "null")
  /\ LastRow.status = "up"

-----------------------------------------------------------------------------
(* The daily counters: updateDailyStats after every recorded check *)

MaxDailyChecks == 3   \* checks recorded in a behaviour

\* the response times a probe can measure, in milliseconds
DailyTimes == {40, 100}

\* monitor 1 has a type without a probe: its cycles record an error without a
\* response time; monitor 2 is a ping monitor
InitDaily == InitTables /\ ConfigSchedule("tls", TRUE)

NextDaily ==
  \/ /\ Len(checks) < MaxDailyChecks
     /\ \E m \in Monitors : \E out \in ProbeOutcomes(monitors[m], DailyTimes, {}) :
          TestMonitor(m, out, {})
  \/ \E d \in TickSteps : Tick(d)

\* cycles through the test route on one day and the next, without a cron run
SpecDaily == InitDaily /\ [][NextDaily]_vars

\* the days on which a monitor has checks
CheckDays(m) == {DateOf(checks[i].checked_at) : i \in ChecksOf(DB, m)}

\* C23: after any sequence of checks recorded for a monitor on one date, with no
\* aggregation run in between, the DailyStat row has total_checks equal to the
\* number of checks recorded and successful_checks equal to the number of those
\* with status up.
C23_DailyCounters ==
  \A m \in Monitors : \A d \in CheckDays(m) :
    LET cs == DayChecks(DB, m, d) IN
    /\ Cardinality(StatRows(DB, m, d)) = 1
    /\ \A r \in StatRows(DB, m, d) :
         /\ r.total_checks = Len(cs)
         /\ r.successful_checks = Len(SelectSeq(cs, LAMBDA c : c.status = "up"))

\* three checks of the ping monitor on one day, two of them up
C23_Witness ==
  /\ CycleDone
  /\ Len(DayChecks(DB, 2, DateOf(LastRow.checked_at))) = 3
  /\ \E r \in StatRows(DB, 2, DateOf(LastRow.checked_at)) :
       r.total_checks = 3 /\ r.successful_checks = 2

\* C24: after any sequence of checks recorded for a monitor on one date, the
\* incrementally maintained average response time equals the arithmetic mean of
\* the response times of the recorded checks that have a non-null response time;
\* checks with a null response time do not change it.
C24_RunningAverage ==
  \A m \in Monitors : \A d \in CheckDays(m) :
    LET cs == DayChecks(DB, m, d)
        timed == SelectSeq(cs, LAMBDA c : c.response_time_ms # NULL)
        times == [k \in 1..Len(timed) |-> timed[k].response_time_ms]
    IN \A r \in StatRows(DB, m, d) :
         timed # <<>> => RealEq(r.avg_response_time_ms, <<SumSeq(times), Len(times)>>)

-----------------------------------------------------------------------------
(* Incidents: what closing one records *)

\* C25: when an incident is closed, its duration_seconds equals the time elapsed
\* between the checked_at of the check that opened it (its started_at) and the
\* time of the up check that closed it, and is never negative.
C25_IncidentDuration ==
  \A i \in DOMAIN incidents :
    incidents[i].resolved_at # NULL =>
      LET inc == incidents[i]
          mine == ChecksOf(DB, inc.monitor_id)
      IN /\ \E j \in mine : \E k \in mine :
              /\ checks[j].status \in DownStatuses
              /\ checks[j].checked_at = inc.started_at
              /\ checks[k].status = "up"
              /\ checks[k].checked_at = inc.resolved_at
              /\ j < k
              /\ inc.duration_seconds = checks[k].checked_at - checks[j].checked_at
         /\ inc.duration_seconds >= 0
         /\ inc.status = "resolved"

\* up, down, down a day later, up: one incident, opened by the first down check
\* and closed by the final up check, more than a day long
C25_Witness ==
  /\ CycleDone
  /\ StatusSeq(1) = <<"up", "down", "down", "up">>
  /\ Len(incidents) = 1
  /\ incidents[1].started_at = TimeSeq(1)[2]
  /\ incidents[1].resolved_at = TimeSeq(1)[4]
  /\ incidents[1].duration_seconds > SecondsPerDay

\* C30: after every completed cycle whose result is up, the monitor has no open
\* incident: resolveIncident closes every incident of that monitor with
\* resolved_at = NULL, and a cycle that goes from up or unknown to up opens none.
C30_UpLeavesNoOpenIncident ==
  \A m \in Monitors :
    (LatestCheck(DB, m) # 0 /\ checks[LatestCheck(DB, m)].status = "up")
      => OpenIncidents(DB, m) = {}

\* down, then timeout: two incidents are open; the up check closes both
C30_Witness ==
  /\ CycleDone
  /\ call.rets[1].monitor = 1
  /\ StatusSeq(1) = <<"down", "timeout", "up">>
  /\ Cardinality(IncidentsOf(1)) = 2
  /\ OpenIncidents(DB, 1) = {}
  /\ \A i \in IncidentsOf(1) : incidents[i].resolved_at = LastRow.checked_at

-----------------------------------------------------------------------------
(* The daily aggregation as the cron handler reaches it: calculateStats goes past
   its first test only when uptime_stats has no row of today, that is when no
   check of today has updated the daily counters *)

MaxSummaryChecks == 2   \* checks through the test route before the cron runs

\* the clock advances to two minutes past the next midnight, or by 366 days
SummarySteps == {SecondsPerDay + 120, 366 * SecondsPerDay}

\* the upsert of the daily counters fails during the run, or nothing does
SummaryFaults == {{}, {"upsert_stats"}}

InitSummary == InitTables /\ ConfigSchedule("ping", TRUE)

\* monitor 1 is checked through the test route; the cron trigger fires once at a
\* scheduled time, not twice in a row
NextSummary ==
  \/ /\ Len(checks) < MaxSummaryChecks
     /\ \E out \in ProbeOutcomes(monitors[1], {40}, {}) : TestMonitor(1, out, {})
  \/ /\ call.op # "handleCron"
     /\ \E F \in SummaryFaults : \E pick \in DuePicks :
          HandleCron(pick, [c \in Contacts |-> "ok"], F)
  \/ \E d \in SummarySteps : Tick(d)

\* checks through the test route, cron runs, and nights between them
SpecSummary == InitSummary /\ [][NextSummary]_vars

\* the cron run went through updateMonitorSummaryStats, the last step of
\* calculateStats
SummaryRan ==
  /\ call.op = "handleCron"
  /\ \E m \in Monitors : monitors[m].is_active /\ monitors[m].stats_updated_at = now

\* the rows of a monitor in the trailing window of n days
Trailing(m, n) == {r \in stats : r.monitor_id = m /\ r.date >= DateOf(now) - n}

\* the mean of uptime_percentage over a non-empty set of rows, in hundredths
MeanUptime(rows) ==
  LET s == SumUptime(rows) IN Round(s[1] * 100, s[2] * Cardinality(rows))

\* C26: after updateMonitorSummaryStats, each active monitor's uptime_7d and
\* uptime_30d equal the average of its DailyStat uptime_percentage over the
\* trailing 7 and 30 days (rounded to two decimals), for every value of that
\* average including 0.
C26_SummaryAverages ==
  SummaryRan =>
    \A m \in Monitors :
      monitors[m].is_active =>
        /\ Trailing(m, 7) # {} => monitors[m].uptime_7d = MeanUptime(Trailing(m, 7))
        /\ Trailing(m, 30) # {} => monitors[m].uptime_30d = MeanUptime(Trailing(m, 30))

\* the same for the averages other than 0
C26_NonZeroAverages ==
  SummaryRan =>
    \A m \in Monitors :
      monitors[m].is_active =>
        /\ (Trailing(m, 7) # {} /\ MeanUptime(Trailing(m, 7)) # 0)
             => monitors[m].uptime_7d = MeanUptime(Trailing(m, 7))
        /\ (Trailing(m, 30) # {} /\ MeanUptime(Trailing(m, 30)) # 0)
             => monitors[m].uptime_30d = MeanUptime(Trailing(m, 30))

\* C27: after every completed run of the daily aggregation, no uptime_stats row
\* dated more than 365 days ago remains, and the purge happens only after the
\* per-monitor daily rows of that run have been written: the rows the run wrote
\* for today are there, the rows of the last 365 days are untouched.
C27_RetentionAfterAggregation ==
  [][(call'.op = "handleCron"
      /\ \E m \in Monitors : monitors'[m].is_active /\ monitors'[m].stats_updated_at = now')
     => /\ \A r \in stats' : r.date >= DateOf(now') - StatsRetentionDays
        /\ \A r \in stats : r.date >= DateOf(now') - StatsRetentionDays
              => \E x \in stats' : x.monitor_id = r.monitor_id /\ x.date = r.date
        /\ \A m \in Monitors :
              (monitors[m].is_active /\ DayChecks(DB', m, DateOf(now')) # <<>>)
                => DayStatRow(m, DateOf(now'), DayChecks(DB', m, DateOf(now'))) \in stats'
    ]_vars

\* a completed run on day 367: the rows of day 0 are gone, those of day 366 remain
C27_Witness ==
  /\ SummaryRan
  /\ DateOf(now) = 367
  /\ \E i \in DOMAIN checks : DateOf(checks[i].checked_at) = 0
  /\ ~\E r \in stats : r.date = 0
  /\ \E r \in stats : r.date = 366

-----------------------------------------------------------------------------
(* Exceptions after the batch: in processNotifications, in one monitor's
   notification processing, in one monitor's stats calculation *)

MaxBatchCalls == 3   \* seconds within which the cron handler is invoked

AllOk == [c \in Contacts |-> "ok"]

\* what fails during a cron run; the daily counters are not written in any of
\* them, so that calculateStats finds no row of today and aggregates
BatchFaults ==
  {{"upsert_stats"}, {"upsert_stats", "select_notify"}}
  \cup {{"upsert_stats", NotifyFault(m)} : m \in Monitors}
  \cup {{"upsert_stats", StatsFault(m)} : m \in Monitors}

InitBatch == InitTables /\ \E type1 \in {"ping", "tls"} : ConfigSchedule(type1, TRUE)

NextBatch ==
  /\ now < MaxBatchCalls
  /\ \E F \in BatchFaults : \E pick \in DuePicks : HandleCron(pick, AllOk, F)

\* cron runs in which a statement after the batch throws
SpecBatch == InitBatch /\ [][NextBatch]_vars

LogsOf(db, m) == SelectSeq(db.alert_logs, LAMBDA l : l.monitor_id = m)
StatsOf(db, m) == {r \in db.stats : r.monitor_id = m}

\* C28: an exception inside processNotifications, inside one monitor's
\* notification processing or inside one monitor's stats calculation does not stop
\* the batch: the remaining monitors of that step are processed as in the run
\* without the exception, and calculateStats runs in the same cron invocation.
C28_ExceptionsDoNotStopBatch ==
  [][call'.op = "handleCron" =>
       \A F \in BatchFaults : \A pick \in DuePicks :
         LET r == handleCron(DB, pick, AllOk, now, F).db
             r0 == handleCron(DB, pick, AllOk, now, {"upsert_stats"}).db
         IN DB' = r =>
              \A m \in Monitors :
                /\ (NotifyFault(m) \notin F /\ "select_notify" \notin F)
                     => LogsOf(r, m) = LogsOf(r0, m)
                /\ StatsFault(m) \notin F => StatsOf(r, m) = StatsOf(r0, m)
                /\ r.monitors[m].stats_updated_at = r0.monitors[m].stats_updated_at
                /\ r.monitors[m].stats_updated_at = now'
    ]_vars

\* the notification processing of monitor 1 threw: no row of alert_logs for it;
\* monitor 2 was notified all the same, and the statistics were calculated
C28_Witness ==
  /\ call.op = "handleCron"
  /\ Len(call.rets) = 2
  /\ NeedsNotification(DB, 1, now) /\ NotifyTargets(1) # {}
  /\ LogsOf(DB, 1) = <<>>
  /\ LogsOf(DB, 2) # <<>>
  /\ \A m \in Monitors :
       /\ monitors[m].stats_updated_at = now
       /\ \E r \in StatsOf(DB, m) : r.up_checks # NULL

-----------------------------------------------------------------------------
(* monitor_checks: one row per cycle, append-only *)

MaxRowCalls == 2   \* seconds of cycles whose rows are counted

\* monitor 1 is a keyword monitor, monitor 2 an http monitor whose headers do not
\* parse: its probe throws
InitRows == InitTables /\ Config("http", "malformed")

NextRows ==
  \/ /\ now < MaxRowCalls
     /\ \E m \in Monitors : \E F \in PersistFaults :
          \E out \in ProbeOutcomes(monitors[m], {40}, F) : TestMonitor(m, out, F)
  \/ /\ now < MaxRowCalls
     /\ DueMonitors(DB, now) # {}
     /\ \E F \in PersistFaults : \E pick \in Picks({40}, F) :
          HandleCron(pick, [c \in Contacts |-> "ok"], F)

\* cycles and cron runs over probes that return and probes that throw, during
\* which the insert of the check row can fail
SpecRows == InitRows /\ [][NextRows]_vars

\* the rows a step has appended to monitor_checks
NewRows == SubSeq(checks', Len(checks) + 1, Len(checks'))

\* the probe outcomes of a batch, by monitor
PickOf(rets) ==
  [m \in Monitors |->
     IF \E k \in DOMAIN rets : rets[k].monitor = m
     THEN rets[CHOOSE k \in DOMAIN rets : rets[k].monitor = m].probe
     ELSE Thrown("none")]

\* C29: each runMonitoringCheck cycle inserts exactly one check row, never zero
\* and never two, whether the probe returned normally or threw (when the INSERT
\* statement itself fails, the one attempt leaves no row and is not repeated);
\* and no operation of the monitoring core updates or deletes an existing check
\* row: every step leaves the rows that were there as they were.
C29_OneRowPerCycle ==
  [][/\ Len(checks') >= Len(checks)
     /\ SubSeq(checks', 1, Len(checks)) = checks
     /\ call'.op = "testMonitor" =>
          \A F \in FaultSets(CycleFaultPoints) :
             DB' = runMonitoringCheck(DB, call'.rets[1].monitor, call'.rets[1].probe, now, F).db
             => /\ Len(NewRows) = (IF "insert_check" \in F THEN 0 ELSE 1)
                /\ \A k \in DOMAIN NewRows :
                     /\ NewRows[k].monitor_id = call'.rets[1].monitor
                     /\ NewRows[k].status = call'.rets[1].probe.status
                     /\ NewRows[k].checked_at = now
     /\ call'.op = "handleCron" =>
          \A F \in FaultSets(CycleFaultPoints) :
             DB' = handleCron(DB, PickOf(call'.rets), call'.net, now, F).db
             => /\ Len(NewRows) = (IF "insert_check" \in F THEN 0 ELSE Len(call'.rets))
                /\ \A k \in DOMAIN NewRows :
                     /\ NewRows[k].monitor_id = call'.rets[k].monitor
                     /\ NewRows[k].status = call'.rets[k].probe.status
                     /\ NewRows[k].checked_at = now + k - 1
    ]_vars

\* a cycle whose probe returned normally and then one whose probe threw: a row each
C29_Witness ==
  /\ call.op = "testMonitor"
  /\ call.rets[1].probe.threw
  /\ Len(checks) = 2
  /\ checks[1].status = "up" /\ checks[1].checked_at = now - 2
  /\ checks[2].status = "error" /\ checks[2].checked_at = now - 1
  /\ checks[2].monitor_id = call.rets[1].monitor

-----------------------------------------------------------------------------
(* The previous status when the insert of the new result failed *)

\* the status of the latest check recorded for a monitor, 'unknown' when none
RecordedStatus(db, m) ==
  IF LatestCheck(db, m) = 0 THEN "unknown" ELSE db.checks[LatestCheck(db, m)].status

\* C31: handleStatusChange always compares the new result with the status of the
\* check recorded immediately before it for that monitor, also when the insert of
\* the new result failed: the incidents and the queued notifications of a cycle
\* are those of the comparison with the latest check recorded before the cycle.
C31_ComparesWithLatestRecorded ==
  [][(call'.op = "testMonitor" /\ ~call'.rets[1].probe.threw)
     => MonitorEffects(DB', call'.rets[1].monitor)
        = MonitorEffects(CompareStatus(DB, call'.rets[1].monitor, call'.rets[1].probe,
                                       RecordedStatus(DB, call'.rets[1].monitor),
                                       now, {}).db,
                         call'.rets[1].monitor)]_vars

-----------------------------------------------------------------------------
(* Two cycles of one monitor between their insert and their handleStatusChange *)

\* both requests have inserted the row of a non-up result for monitor m, neither
\* has run handleStatusChange, and the check recorded before the two rows is up
BothSaved(m) ==
  /\ \A r \in Requests :
       /\ cycles[r].pc = "saved"
       /\ cycles[r].monitor = m
       /\ cycles[r].probe.status \in DownStatuses
  /\ Cardinality(ChecksOf(DB, m)) >= 3
  /\ \A i \in ChecksOf(DB, m) :
       Cardinality({j \in ChecksOf(DB, m) : j > i}) >= 2 => checks[i].status = "up"
  /\ OpenIncidents(DB, m) = {}

\* C32: when two cycles of the same monitor interleave (both insert their check
\* row before either runs handleStatusChange) and both observe a non-up result
\* after an up history, at least one of them detects the transition: once the
\* first has run handleStatusChange and the second runs it, an incident is open
\* and notifications are enqueued.
C32_InterleavedTransitionDetected ==
  [][\A m \in Monitors : \A p \in Requests : \A q \in Requests \ {p} :
       (BothSaved(m) /\ cycles'[p].pc = "idle" /\ cycles'[q].pc = "saved")
       => With(handleStatusChange(DB', m, cycles'[q].probe, cycles'[q].t, {}).db,
               LAMBDA d : /\ OpenIncidents(d, m) # {}
                          /\ \E e \in d.kv : e.value.monitorId = m)]_vars

-----------------------------------------------------------------------------
(* The notification pass and the per-monitor flags of a contact *)

\* C33: every notification that processNotifications sends to a contact respects
\* that contact's own per-monitor flags: a contact whose notify_on_down is off for
\* the monitor is never sent a down notification, and one whose notify_on_up is
\* off is never sent a recovery notification.
C33_ContactFlagsRespected ==
  \A i \in DOMAIN alert_logs :
    alert_logs[i].status = "sent" =>
      \A x \in mac :
        (x.monitor_id = alert_logs[i].monitor_id
         /\ x.alert_contact_id = alert_logs[i].alert_contact_id)
        => /\ alert_logs[i].type = "down" => x.notify_on_down
           /\ alert_logs[i].type = "recovery" => x.notify_on_up

-----------------------------------------------------------------------------
(* The queued notification events and the notification pass *)

\* a log row of a delivery to the event's contact for the event's monitor, made
\* at or after the time the event was queued
Consumed(e, logs) ==
  \E i \in DOMAIN logs :
    /\ logs[i].monitor_id = e.value.monitorId
    /\ logs[i].alert_contact_id = e.value.contactId
    /\ logs[i].status \in {"sent", "failed"}
    /\ logs[i].created_at >= e.value.timestamp

\* C34: every notification event that queueNotifications puts into the KV store
\* is consumed before its 24-hour TTL expires, provided the cron handler keeps
\* running: when an event expires after a cron invocation has run, a delivery to
\* its contact has been logged as sent or as failed.
C34_EventsConsumedBeforeExpiry ==
  [][(call.op = "handleCron" /\ call'.op = "tick")
     => \A e \in kv : e \notin kv' => Consumed(e, alert_logs)]_vars

\* C35: across repeated cron invocations during which no new check is recorded
\* for a monitor, processNotifications sends the notification for one transition
\* to one contact at most once: an invocation that records no check sends
\* nothing to a contact that was sent the notification of the monitor's latest
\* check already.
C35_TransitionSentOnce ==
  [][(/\ call'.op = "handleCron"
      /\ checks' = checks
      /\ SubSeq(alert_logs', 1, Len(alert_logs)) = alert_logs)
     => \A i \in (Len(alert_logs) + 1)..Len(alert_logs') :
          alert_logs'[i].status = "sent" =>
            ~\E j \in DOMAIN alert_logs :
                /\ alert_logs[j].status = "sent"
                /\ alert_logs[j].monitor_id = alert_logs'[i].monitor_id
                /\ alert_logs[j].alert_contact_id = alert_logs'[i].alert_contact_id
                /\ alert_logs[j].created_at
                     >= checks[LatestCheck(DB, alert_logs'[i].monitor_id)].checked_at]_vars

\* the status of the check recorded before the latest check of a monitor
PreviousStatus(db, m) ==
  IF LatestCheck(db, m) = 0 \/ PrevCheck(db, m, LatestCheck(db, m)) = 0 THEN "unknown"
  ELSE db.checks[PrevCheck(db, m, LatestCheck(db, m))].status

-----------------------------------------------------------------------------
(* The downtime sweep and the transition handling over the same checks *)

\* the cycles of runMonitoringCheck that recorded the checks cs[k..], rerun in
\* order over the tables db
RECURSIVE Replay(_, _, _)
Replay(db, cs, k) ==
  IF k > Len(cs) THEN db
  ELSE Replay(runMonitoringCheck(db, cs[k].monitor_id,
                                 Result(cs[k].status, cs[k].response_time_ms,
                                        cs[k].error_message),
                                 cs[k].checked_at, {}).db,
              cs, k + 1)

\* C37: for any time-ordered sequence of one day's checks of a monitor that
\* starts from an up state, the downtime_incidents computed by calculateDowntime
\* equals the number of incidents the transition state machine
\* (handleStatusChange) opens when it processes the same sequence, for every mix
\* of up, down, timeout and error results.
C37_SweepMatchesTransitions ==
  (call.op = "calculateDowntime" /\ checks # <<>> /\ checks[1].status = "up")
  => call.rets[1].incidents
     = Len(Replay([DB EXCEPT !.checks = <<>>], DayChecks(DB, 1, DateOf(now)), 1).incidents)

\* the same for the days whose checks are all up or down
C37_UpAndDownOnly ==
  (/\ call.op = "calculateDowntime" /\ checks # <<>> /\ checks[1].status = "up"
   /\ \A i \in DOMAIN checks : checks[i].status \in {"up", "down"})
  => call.rets[1].incidents
     = Len(Replay([DB EXCEPT !.checks = <<>>], DayChecks(DB, 1, DateOf(now)), 1).incidents)

-----------------------------------------------------------------------------
(* The counts of a day's row written by the aggregation *)

\* C38: every DailyStat row written by calculateMonitorStats satisfies
\* up_checks + down_checks = total_checks, for every mix of check statuses on
\* that date.
C38_CountsAddUp ==
  \A r \in stats : r.up_checks # NULL => r.up_checks + r.down_checks = r.total_checks

\* the same for the rows of days whose checks are all up or down
C38_UpAndDownDays ==
  \A r \in stats :
    (/\ r.up_checks # NULL
     /\ \A i \in DOMAIN checks :
          (checks[i].monitor_id = r.monitor_id /\ DateOf(checks[i].checked_at) = r.date)
          => checks[i].status \in {"up", "down"})
    => r.up_checks + r.down_checks = r.total_checks

-----------------------------------------------------------------------------
(* What resolveIncident leaves alone *)

\* C39: resolveIncident changes only incidents of the given monitor that are
\* still open: an incident that is already resolved keeps its status, resolved_at
\* and duration_seconds forever, incidents of other monitors are unchanged, and
\* in every state an incident has status resolved iff its resolved_at is not NULL.
C39_ResolveFrame ==
  [][/\ \A i \in DOMAIN incidents :
          /\ i \in DOMAIN incidents'
          /\ incidents[i].resolved_at # NULL => incidents'[i] = incidents[i]
          /\ (call'.op = "testMonitor" /\ incidents[i].monitor_id # call'.rets[1].monitor)
               => incidents'[i] = incidents[i]
     /\ \A i \in DOMAIN incidents' :
          incidents'[i].status = "resolved" <=> incidents'[i].resolved_at # NULL]_vars

\* monitor 2 goes down, monitor 1 goes down and recovers, then monitor 2
\* recovers: each incident was closed by the up check of its own monitor
C39_Witness ==
  /\ CycleDone
  /\ call.rets[1].monitor = 2
  /\ Len(incidents) = 2
  /\ incidents[1].monitor_id = 2 /\ incidents[2].monitor_id = 1
  /\ incidents[1].status = "resolved" /\ incidents[2].status = "resolved"
  /\ incidents[2].resolved_at < incidents[1].resolved_at
  /\ incidents[1].resolved_at = LastRow.checked_at
  /\ incidents[2].duration_seconds = incidents[2].resolved_at - incidents[2].started_at

====
